---- MODULE Spec2Model ----
(***************************************************************************)
(* comfy-mcp: the DSL <-> ComfyUI graph converters of                      *)
(* src/comfy_mcp/dsl/converter.py, as state machines.                      *)
(*                                                                         *)
(* Python values are represented as follows.                               *)
(*   str        a tuple of one-character strings, so that lower(),         *)
(*              substring tests, str(int) and concatenation are computed   *)
(*   dict       a sequence of <<key, value>> pairs with distinct keys, in  *)
(*              insertion order (a Python dict keeps insertion order)      *)
(*   AST value  [k, b, n, s, node, output]: k is "conn" (node, output),    *)
(*              "bool" (b), "int" (n), "float" (n stands for n + 0.5) or   *)
(*              "str" (s)                                                  *)
(*   JSON value [k, b, n, s, items]: k is "list" (items, a sequence of     *)
(*              scalars [k, b, n, s]), "bool", "int", "float" or "str"     *)
(***************************************************************************)
EXTENDS Integers, Sequences, FiniteSets, Bags, TLC

VARIABLES
    \* DslToJsonConverter instance fields (converter.py:29-32)
    node_id_map, node_type_map, next_id,
    \* one DslToJsonConverter.convert call: argument, position, local, outcome
    workflow, d_pc, d_i, result, d_ret,
    \* one JsonToDslConverter.convert call: argument, position, locals, outcome
    json_data, j_pc, j_i, names, type_counts, sections_dict, j_ret,
    \* earlier convert calls finished on the DslToJsonConverter instance
    calls,
    \* a DslToJsonConverter.convert call of a second thread on the same
    \* instance: argument, position, local, outcome
    workflow2, d2_pc, d2_i, result2, d2_ret,
    \* one full_workflow_to_simplified call: argument, position, outcome
    full_data, n_pc, n_ret,
    \* one DSLParser.parse call: argument, position, outcome
    p_text, p_pc, p_ret,
    \* one call of a file tool of server.py: the tool, its path argument,
    \* position, the resolved path it read, wrote or listed
    f_tool, f_path, f_pc, f_touched,
    \* OfficialTemplateManager: self.templates; one sync_official_templates
    \* call: what the network and the disk do, the results of the
    \* _process_template tasks, the cache file, position, outcome
    templates, s_input, s_results, s_cache, s_pc, s_ret,
    \* one execute_workflow call: wait_for_completion, timeout_seconds,
    \* position, loop time since start_time, what the last get_history
    \* reported, result["status"]
    e_wait, e_timeout, e_pc, e_elapsed, e_history, e_status

d_vars == <<node_id_map, node_type_map, next_id, workflow, d_pc, d_i, result, d_ret>>
j_vars == <<json_data, j_pc, j_i, names, type_counts, sections_dict, j_ret>>
t_vars == <<workflow2, d2_pc, d2_i, result2, d2_ret>>
n_vars == <<full_data, n_pc, n_ret>>
p_vars == <<p_text, p_pc, p_ret>>
f_vars == <<f_tool, f_path, f_pc, f_touched>>
s_vars == <<templates, s_input, s_results, s_cache, s_pc, s_ret>>
e_vars == <<e_wait, e_timeout, e_pc, e_elapsed, e_history, e_status>>
c_vars == <<d_vars, j_vars, calls, t_vars, n_vars>>
o_vars == <<p_vars, f_vars, s_vars, e_vars>>
x_vars == <<calls, t_vars, n_vars, o_vars>>
vars == <<d_vars, j_vars, x_vars>>

----------------------------------------------------------------------------
(* Bounds of the model *)

\* nodes of a DSL workflow handed to DslToJsonConverter.convert
MaxNodes == 2
\* properties of a DSL workflow, all nodes together
MaxProps == 2
\* entries of a graph handed to JsonToDslConverter.convert
MaxEntries == 3
\* inputs of a graph, all entries together
MaxInputs == 1
\* entries of a graph whose section labels are examined
MaxSectionEntries == 2
\* nodes of each workflow of two concurrent convert calls
MaxSharedNodes == 2
\* literal property values of the node or entry whose literals are examined
MaxLiterals == 2
\* node records of the node list of a blob
MaxBlobNodes == 2
\* nodes of each workflow handed to a reused converter
MaxReuseNodes == 2
\* convert calls made on a converter before the one examined
MaxEarlierCalls == 2
\* property lines of the node handed to the parser
MaxValueLines == 2
\* segments of the path handed to a file tool
MaxSegments == 4
\* entries of the template list the sync fetches
MaxTemplates == 2
\* largest timeout_seconds handed to execute_workflow
MaxTimeout == 5
\* seconds one get_history call can take on top of the sleep
MaxLatency == 1

----------------------------------------------------------------------------
(* Python strings *)

S_CheckpointLoaderSimple ==
    <<"C","h","e","c","k","p","o","i","n","t","L","o","a","d","e","r","S","i","m","p","l","e">>
S_CheckpointLoader == <<"C","h","e","c","k","p","o","i","n","t","L","o","a","d","e","r">>
S_CLIPTextEncode == <<"C","L","I","P","T","e","x","t","E","n","c","o","d","e">>
S_EmptyLatentImage == <<"E","m","p","t","y","L","a","t","e","n","t","I","m","a","g","e">>
S_KSampler == <<"K","S","a","m","p","l","e","r">>
S_VAEDecode == <<"V","A","E","D","e","c","o","d","e">>
S_VAEEncode == <<"V","A","E","E","n","c","o","d","e">>
S_LoadImage == <<"L","o","a","d","I","m","a","g","e">>
S_SaveImage == <<"S","a","v","e","I","m","a","g","e">>
S_Foo == <<"F","o","o">>
S_Foo_1 == <<"F","o","o","_","1">>

S_model == <<"m","o","d","e","l">>
S_clip == <<"c","l","i","p">>
S_vae == <<"v","a","e">>
S_conditioning == <<"c","o","n","d","i","t","i","o","n","i","n","g">>
S_latent == <<"l","a","t","e","n","t">>
S_image == <<"i","m","a","g","e">>
S_mask == <<"m","a","s","k">>
S_bogus == <<"b","o","g","u","s">>

S_checkpoint == <<"c","h","e","c","k","p","o","i","n","t">>
S_text_encode == <<"t","e","x","t","_","e","n","c","o","d","e">>
S_empty_latent == <<"e","m","p","t","y","_","l","a","t","e","n","t">>
S_sampler == <<"s","a","m","p","l","e","r">>
S_decode == <<"d","e","c","o","d","e">>
S_encode == <<"e","n","c","o","d","e">>
S_load_image == <<"l","o","a","d","_","i","m","a","g","e">>
S_save == <<"s","a","v","e">>

S_a == <<"a">>
S_b == <<"b">>
S_z == <<"z">>
S_p == <<"p">>
S_v == <<"v">>

\* str.lower() on one character (ASCII letters)
UpperToLower ==
    [A |-> "a", B |-> "b", C |-> "c", D |-> "d", E |-> "e", F |-> "f", G |-> "g",
     H |-> "h", I |-> "i", J |-> "j", K |-> "k", L |-> "l", M |-> "m", N |-> "n",
     O |-> "o", P |-> "p", Q |-> "q", R |-> "r", S |-> "s", T |-> "t", U |-> "u",
     V |-> "v", W |-> "w", X |-> "x", Y |-> "y", Z |-> "z"]

\* str.lower()
Lower(s) == [i \in 1..Len(s) |-> IF s[i] \in DOMAIN UpperToLower THEN UpperToLower[s[i]] ELSE s[i]]

\* sub in s
Contains(sub, s) ==
    \E i \in 0..(Len(s) - Len(sub)) : SubSeq(s, i + 1, i + Len(sub)) = sub

DigitChar == <<"0","1","2","3","4","5","6","7","8","9">>

\* str(n) for an int n >= 0
RECURSIVE IntStr(_)
IntStr(n) ==
    IF n < 10 THEN <<DigitChar[n + 1]>>
    ELSE IntStr(n \div 10) \o <<DigitChar[(n % 10) + 1]>>

----------------------------------------------------------------------------
(* Python dicts: sequences of <<key, value>> in insertion order *)

DictKeys(d) == {d[i][1] : i \in 1..Len(d)}
DictHas(d, key) == key \in DictKeys(d)
DictIndex(d, key) == CHOOSE i \in 1..Len(d) : d[i][1] = key
\* d[key], for a key of d
DictGet(d, key) == d[DictIndex(d, key)][2]
\* d.get(key, default)
DictGetOr(d, key, default) == IF DictHas(d, key) THEN DictGet(d, key) ELSE default
\* d[key] = value: an existing key keeps its position
DictSet(d, key, value) ==
    IF DictHas(d, key)
    THEN [d EXCEPT ![DictIndex(d, key)] = <<key, value>>]
    ELSE Append(d, <<key, value>>)

----------------------------------------------------------------------------
(* Values *)

AstConn(node, output) ==
    [k |-> "conn", b |-> FALSE, n |-> 0, s |-> <<>>, node |-> node, output |-> output]
AstBool(b) == [k |-> "bool", b |-> b, n |-> 0, s |-> <<>>, node |-> <<>>, output |-> <<>>]
AstInt(n) == [k |-> "int", b |-> FALSE, n |-> n, s |-> <<>>, node |-> <<>>, output |-> <<>>]
AstFloat(n) == [k |-> "float", b |-> FALSE, n |-> n, s |-> <<>>, node |-> <<>>, output |-> <<>>]
AstStr(s) == [k |-> "str", b |-> FALSE, n |-> 0, s |-> s, node |-> <<>>, output |-> <<>>]

ScalBool(b) == [k |-> "bool", b |-> b, n |-> 0, s |-> <<>>]
ScalInt(n) == [k |-> "int", b |-> FALSE, n |-> n, s |-> <<>>]
ScalFloat(n) == [k |-> "float", b |-> FALSE, n |-> n, s |-> <<>>]
ScalStr(s) == [k |-> "str", b |-> FALSE, n |-> 0, s |-> s]

JsonList(items) == [k |-> "list", b |-> FALSE, n |-> 0, s |-> <<>>, items |-> items]
JsonBool(b) == [k |-> "bool", b |-> b, n |-> 0, s |-> <<>>, items |-> <<>>]
JsonInt(n) == [k |-> "int", b |-> FALSE, n |-> n, s |-> <<>>, items |-> <<>>]
JsonFloat(n) == [k |-> "float", b |-> FALSE, n |-> n, s |-> <<>>, items |-> <<>>]
JsonStr(s) == [k |-> "str", b |-> FALSE, n |-> 0, s |-> s, items |-> <<>>]

\* str(x) of a scalar
ScalToStr(x) ==
    CASE x.k = "str" -> x.s
      [] x.k = "int" -> IntStr(x.n)
      [] x.k = "float" -> IntStr(x.n) \o <<".", "5">>
      [] x.k = "bool" -> IF x.b THEN <<"T","r","u","e">> ELSE <<"F","a","l","s","e">>

\* repr(x) of a scalar
ScalRepr(x) == IF x.k = "str" THEN <<"'">> \o x.s \o <<"'">> ELSE ScalToStr(x)

\* str(value) of a list: "[" + ", ".join(repr(e)) + "]"
RECURSIVE JoinRepr(_)
JoinRepr(items) ==
    IF items = <<>> THEN <<>>
    ELSE IF Len(items) = 1 THEN ScalRepr(items[1])
    ELSE ScalRepr(items[1]) \o <<",", " ">> \o JoinRepr(Tail(items))

\* str(value) of a JSON value
JsonToStr(x) ==
    IF x.k = "list" THEN <<"[">> \o JoinRepr(x.items) \o <<"]">>
    ELSE ScalToStr([k |-> x.k, b |-> x.b, n |-> x.n, s |-> x.s])

----------------------------------------------------------------------------
(* Tables *)

DEFAULT_OUTPUT_MAPPINGS ==
    << <<S_CheckpointLoaderSimple, << <<S_model, 0>>, <<S_clip, 1>>, <<S_vae, 2>> >> >>,
       <<S_CheckpointLoader, << <<S_model, 0>>, <<S_clip, 1>>, <<S_vae, 2>> >> >>,
       <<S_CLIPTextEncode, << <<S_conditioning, 0>> >> >>,
       <<S_EmptyLatentImage, << <<S_latent, 0>> >> >>,
       <<S_KSampler, << <<S_latent, 0>> >> >>,
       <<S_VAEDecode, << <<S_image, 0>> >> >>,
       <<S_VAEEncode, << <<S_latent, 0>> >> >>,
       <<S_LoadImage, << <<S_image, 0>>, <<S_mask, 1>> >> >>,
       <<S_SaveImage, << >> >> >>

\* self.output_mappings of both converters, constructed without an argument
output_mappings == DEFAULT_OUTPUT_MAPPINGS


----------------------------------------------------------------------------
(* Workflow AST (ast_nodes.py): a workflow is its sequence of sections *)

Property(name, value) == [name |-> name, value |-> value]
Node(name, node_type, properties) ==
    [name |-> name, node_type |-> node_type, properties |-> properties]
Section(header, nodes) == [header |-> header, nodes |-> nodes]

\* for section in workflow.sections: for node in section.nodes
RECURSIVE FlatNodes(_)
FlatNodes(sections) ==
    IF sections = <<>> THEN <<>>
    ELSE Head(sections).nodes \o FlatNodes(Tail(sections))

----------------------------------------------------------------------------
(* DslToJsonConverter *)

\* _get_output_index without the table: every output is slot 0
GetOutputIndexNoTable(node_name, output_name) == 0

\* _get_output_index
GetOutputIndex(node_name, output_name) ==
    IF DictHas(node_type_map, node_name)
    THEN LET node_type == DictGet(node_type_map, node_name)
         IN  IF DictHas(output_mappings, node_type)
             THEN DictGetOr(DictGet(output_mappings, node_type), output_name, 0)
             ELSE 0
    ELSE 0

\* a converter of one pass: a name not declared before the node that uses
\* it is not in the table yet
DslValueRaisesOnePass(value) ==
    /\ value.k = "conn"
    /\ \/ ~DictHas(node_id_map, value.node)
       \/ \E k \in d_i..Len(FlatNodes(workflow)) :
             DictGet(node_id_map, value.node) = IntStr(k)
\* _convert_value raises KeyError at self.node_id_map[value.node]
DslValueRaises(value) == value.k = "conn" /\ ~DictHas(node_id_map, value.node)

\* _convert_value, when it returns
DslConvertValue(value) ==
    CASE value.k = "conn" ->
            JsonList(<<ScalStr(DictGet(node_id_map, value.node)),
                       ScalInt(GetOutputIndex(value.node, value.output))>>)
      [] value.k = "bool" -> JsonBool(value.b)
      [] value.k = "int" -> JsonInt(value.n)
      [] value.k = "float" -> JsonFloat(value.n)
      [] OTHER -> JsonStr(value.s)

\* the loop of _convert_node over node.properties
RECURSIVE DslConvertProps(_, _)
DslConvertProps(properties, inputs) ==
    IF properties = <<>> THEN inputs
    ELSE DslConvertProps(Tail(properties),
             DictSet(inputs, Head(properties).name, DslConvertValue(Head(properties).value)))

DslNodeRaises(node) ==
    \E j \in 1..Len(node.properties) : DslValueRaises(node.properties[j].value)

\* _convert_node, when it returns
DslConvertNode(node) ==
    [class_type |-> node.node_type, inputs |-> DslConvertProps(node.properties, <<>>)]

\* convert without lines 36-38: the tables and the counter are kept
DslEnterNoReset ==
    /\ d_pc = "ready"
    /\ result' = <<>>
    /\ d_i' = 1
    /\ d_pc' = "pass1"
    /\ UNCHANGED <<node_id_map, node_type_map, next_id, workflow, d_ret, j_vars, x_vars>>

\* convert, lines 36-40
DslEnter ==
    /\ d_pc = "ready"
    /\ node_id_map' = <<>>
    /\ node_type_map' = <<>>
    /\ next_id' = 1
    /\ result' = <<>>
    /\ d_i' = 1
    /\ d_pc' = "pass1"
    /\ UNCHANGED <<workflow, d_ret, j_vars, x_vars>>

\* first pass, one node
DslPass1Step ==
    /\ d_pc = "pass1"
    /\ d_i <= Len(FlatNodes(workflow))
    /\ LET node == FlatNodes(workflow)[d_i]
           node_id == IntStr(next_id)
       IN  /\ node_id_map' = DictSet(node_id_map, node.name, node_id)
           /\ node_type_map' = DictSet(node_type_map, node.name, node.node_type)
           /\ next_id' = next_id + 1
    /\ d_i' = d_i + 1
    /\ UNCHANGED <<workflow, d_pc, result, d_ret, j_vars, x_vars>>

\* the first pass's loops end
DslPass1Exit ==
    /\ d_pc = "pass1"
    /\ d_i > Len(FlatNodes(workflow))
    /\ d_pc' = "pass2"
    /\ d_i' = 1
    /\ UNCHANGED <<node_id_map, node_type_map, next_id, workflow, result, d_ret, j_vars, x_vars>>

\* second pass with the KeyError swallowed: the node is skipped, convert goes on
DslPass2StepSkip ==
    /\ d_pc = "pass2"
    /\ d_i <= Len(FlatNodes(workflow))
    /\ LET node == FlatNodes(workflow)[d_i]
       IN  IF DslNodeRaises(node)
           THEN UNCHANGED result
           ELSE result' = DictSet(result, DictGet(node_id_map, node.name), DslConvertNode(node))
    /\ d_i' = d_i + 1
    /\ UNCHANGED <<node_id_map, node_type_map, next_id, workflow, d_pc, d_ret, j_vars, x_vars>>

\* second pass, one node: the KeyError of self.node_id_map[node.name] or of
\* _convert_value leaves convert
DslPass2Step ==
    /\ d_pc = "pass2"
    /\ d_i <= Len(FlatNodes(workflow))
    /\ LET node == FlatNodes(workflow)[d_i]
       IN  IF ~DictHas(node_id_map, node.name) \/ DslNodeRaises(node)
           THEN /\ d_pc' = "raised"
                /\ UNCHANGED <<result, d_i>>
           ELSE /\ result' = DictSet(result, DictGet(node_id_map, node.name), DslConvertNode(node))
                /\ d_i' = d_i + 1
                /\ UNCHANGED d_pc
    /\ UNCHANGED <<node_id_map, node_type_map, next_id, workflow, d_ret, j_vars, x_vars>>

\* return result
DslReturn ==
    /\ d_pc = "pass2"
    /\ d_i > Len(FlatNodes(workflow))
    /\ d_ret' = result
    /\ d_pc' = "returned"
    /\ UNCHANGED <<node_id_map, node_type_map, next_id, workflow, d_i, result, j_vars, x_vars>>

DslNext == DslEnter \/ DslPass1Step \/ DslPass1Exit \/ DslPass2Step \/ DslReturn


----------------------------------------------------------------------------
(* JsonToDslConverter *)

S_Checkpoint == <<"C","h","e","c","k","p","o","i","n","t">>
S_Loader == <<"L","o","a","d","e","r">>
S_CLIP == <<"C","L","I","P">>
S_TextEncode == <<"T","e","x","t","E","n","c","o","d","e">>
S_Latent == <<"L","a","t","e","n","t">>
S_Sampler == <<"S","a","m","p","l","e","r">>
S_VAE == <<"V","A","E">>
S_Save == <<"S","a","v","e">>
S_ModelLoading == <<"M","o","d","e","l"," ","L","o","a","d","i","n","g">>
S_TextConditioning == <<"T","e","x","t"," ","C","o","n","d","i","t","i","o","n","i","n","g">>
S_Sampling == <<"S","a","m","p","l","i","n","g">>
S_Output == <<"O","u","t","p","u","t">>
S_Processing == <<"P","r","o","c","e","s","s","i","n","g">>
S_output_ == <<"o","u","t","p","u","t","_">>

\* {idx: name for name, idx in mapping.items()}
RECURSIVE InvertMapping(_, _)
InvertMapping(mapping, acc) ==
    IF mapping = <<>> THEN acc
    ELSE InvertMapping(Tail(mapping), DictSet(acc, Head(mapping)[2], Head(mapping)[1]))

\* __init__: self.reverse_mappings
reverse_mappings ==
    [i \in 1..Len(output_mappings) |->
        <<output_mappings[i][1], InvertMapping(output_mappings[i][2], <<>>)>>]

\* the int a dict key lookup compares a scalar with (True == 1, False == 0);
\* -1 for a scalar that equals no int
ScalKey(x) ==
    CASE x.k = "int" -> x.n
      [] x.k = "bool" -> IF x.b THEN 1 ELSE 0
      [] OTHER -> -1

\* _get_output_name without the inverse table: every slot is output_<index>
GetOutputNameNoTable(node_type, output_index) == S_output_ \o ScalToStr(output_index)

\* _get_output_name
GetOutputName(node_type, output_index) ==
    IF DictHas(reverse_mappings, node_type)
    THEN DictGetOr(DictGet(reverse_mappings, node_type), ScalKey(output_index),
                   S_output_ \o ScalToStr(output_index))
    ELSE S_output_ \o ScalToStr(output_index)

\* _type_to_name
TypeToName(node_type) ==
    LET mappings == << <<S_CheckpointLoaderSimple, S_checkpoint>>,
                       <<S_CheckpointLoader, S_checkpoint>>,
                       <<S_CLIPTextEncode, S_text_encode>>,
                       <<S_EmptyLatentImage, S_empty_latent>>,
                       <<S_KSampler, S_sampler>>,
                       <<S_VAEDecode, S_decode>>,
                       <<S_VAEEncode, S_encode>>,
                       <<S_LoadImage, S_load_image>>,
                       <<S_SaveImage, S_save>> >>
    IN  DictGetOr(mappings, node_type, Lower(node_type))

\* _infer_section_name with the VAE / Save test moved to the front
InferSectionNameOutputFirst(node_type) ==
    IF Contains(S_VAE, node_type) \/ Contains(S_Save, node_type) THEN S_Output
    ELSE IF Contains(S_Checkpoint, node_type) \/ Contains(S_Loader, node_type) THEN S_ModelLoading
    ELSE IF Contains(S_CLIP, node_type) \/ Contains(S_TextEncode, node_type) THEN S_TextConditioning
    ELSE IF Contains(S_Latent, node_type) THEN S_Latent
    ELSE IF Contains(S_Sampler, node_type) \/ Contains(S_KSampler, node_type) THEN S_Sampling
    ELSE S_Processing

\* _infer_section_name
InferSectionName(node_type) ==
    IF Contains(S_Checkpoint, node_type) \/ Contains(S_Loader, node_type) THEN S_ModelLoading
    ELSE IF Contains(S_CLIP, node_type) \/ Contains(S_TextEncode, node_type) THEN S_TextConditioning
    ELSE IF Contains(S_Latent, node_type) THEN S_Latent
    ELSE IF Contains(S_Sampler, node_type) \/ Contains(S_KSampler, node_type) THEN S_Sampling
    ELSE IF Contains(S_VAE, node_type) \/ Contains(S_Save, node_type) THEN S_Output
    ELSE S_Processing

\* isinstance(value, list) and len(value) == 2
IsConnectionList(value) == value.k = "list" /\ Len(value.items) = 2

\* _convert_value raises KeyError at node_names[target_node_id]
JsonValueRaises(value) ==
    IsConnectionList(value) /\ ~DictHas(names, ScalToStr(value.items[1]))

\* _convert_value with the bool test dropped: a bool falls to the int test
JsonConvertValueBoolAsInt(value) ==
    IF IsConnectionList(value)
    THEN LET target_node_id == ScalToStr(value.items[1])
             output_index == value.items[2]
             target_node_name == DictGet(names, target_node_id)
             target_node_type == DictGet(json_data, target_node_id).class_type
         IN  AstConn(target_node_name, GetOutputName(target_node_type, output_index))
    ELSE CASE value.k = "bool" -> AstInt(IF value.b THEN 1 ELSE 0)
           [] value.k = "int" -> AstInt(value.n)
           [] value.k = "float" -> AstFloat(value.n)
           [] OTHER -> AstStr(JsonToStr(value))

\* _convert_value, when it returns
JsonConvertValue(value) ==
    IF IsConnectionList(value)
    THEN LET target_node_id == ScalToStr(value.items[1])
             output_index == value.items[2]
             target_node_name == DictGet(names, target_node_id)
             target_node_type == DictGet(json_data, target_node_id).class_type
         IN  AstConn(target_node_name, GetOutputName(target_node_type, output_index))
    ELSE CASE value.k = "bool" -> AstBool(value.b)
           [] value.k = "int" -> AstInt(value.n)
           [] value.k = "float" -> AstFloat(value.n)
           [] OTHER -> AstStr(JsonToStr(value))

\* the loop of convert over inputs.items()
JsonConvertInputs(inputs) ==
    [j \in 1..Len(inputs) |-> Property(inputs[j][1], JsonConvertValue(inputs[j][2]))]

JsonEntryRaises(node_data) ==
    \E j \in 1..Len(node_data.inputs) : JsonValueRaises(node_data.inputs[j][2])

\* the suffix taken before the count is incremented: base, base_0, base_1, ...
GenerateNameFromZero(base_name) ==
    IF ~DictHas(type_counts, base_name) THEN base_name
    ELSE base_name \o <<"_">> \o IntStr(DictGet(type_counts, base_name))

\* the name _generate_node_names gives the entry it visits
GenerateName(base_name) ==
    IF ~DictHas(type_counts, base_name) THEN base_name
    ELSE base_name \o <<"_">> \o IntStr(DictGet(type_counts, base_name) + 1)

\* convert is called: _generate_node_names starts
JsonEnter ==
    /\ j_pc = "ready"
    /\ names' = <<>>
    /\ type_counts' = <<>>
    /\ j_i' = 1
    /\ j_pc' = "names"
    /\ UNCHANGED <<json_data, sections_dict, j_ret, d_vars, x_vars>>

\* _generate_node_names, one entry
JsonNameStep ==
    /\ j_pc = "names"
    /\ j_i <= Len(json_data)
    /\ LET node_id == json_data[j_i][1]
           base_name == TypeToName(json_data[j_i][2].class_type)
       IN  /\ names' = DictSet(names, node_id, GenerateName(base_name))
           /\ type_counts' =
                 IF ~DictHas(type_counts, base_name)
                 THEN DictSet(type_counts, base_name, 0)
                 ELSE DictSet(type_counts, base_name, DictGet(type_counts, base_name) + 1)
    /\ j_i' = j_i + 1
    /\ UNCHANGED <<json_data, j_pc, sections_dict, j_ret, d_vars, x_vars>>

\* _generate_node_names returns; sections_dict = {}
JsonNamesExit ==
    /\ j_pc = "names"
    /\ j_i > Len(json_data)
    /\ sections_dict' = <<>>
    /\ j_i' = 1
    /\ j_pc' = "nodes"
    /\ UNCHANGED <<json_data, names, type_counts, j_ret, d_vars, x_vars>>

\* the loop of convert with sections_dict[section_name] = [node]: a section
\* keeps only its last node
JsonNodeStepOverwrite ==
    /\ j_pc = "nodes"
    /\ j_i <= Len(json_data)
    /\ LET node_id == json_data[j_i][1]
           node_data == json_data[j_i][2]
           node_type == node_data.class_type
           section_name == InferSectionName(node_type)
           node == Node(DictGet(names, node_id), node_type, JsonConvertInputs(node_data.inputs))
       IN  IF JsonEntryRaises(node_data)
           THEN /\ j_pc' = "raised"
                /\ UNCHANGED <<sections_dict, j_i>>
           ELSE /\ sections_dict' = DictSet(sections_dict, section_name, <<node>>)
                /\ j_i' = j_i + 1
                /\ UNCHANGED j_pc
    /\ UNCHANGED <<json_data, names, type_counts, j_ret, d_vars, x_vars>>

\* the loop of convert with the KeyError swallowed: the entry is skipped
JsonNodeStepSkip ==
    /\ j_pc = "nodes"
    /\ j_i <= Len(json_data)
    /\ LET node_id == json_data[j_i][1]
           node_data == json_data[j_i][2]
           node_type == node_data.class_type
           section_name == InferSectionName(node_type)
           node == Node(DictGet(names, node_id), node_type, JsonConvertInputs(node_data.inputs))
       IN  IF JsonEntryRaises(node_data)
           THEN UNCHANGED sections_dict
           ELSE sections_dict' =
                    DictSet(sections_dict, section_name,
                            Append(DictGetOr(sections_dict, section_name, <<>>), node))
    /\ j_i' = j_i + 1
    /\ UNCHANGED <<json_data, j_pc, names, type_counts, j_ret, d_vars, x_vars>>

\* the loop of convert, one entry: the KeyError of _convert_value leaves convert
JsonNodeStep ==
    /\ j_pc = "nodes"
    /\ j_i <= Len(json_data)
    /\ LET node_id == json_data[j_i][1]
           node_data == json_data[j_i][2]
           node_type == node_data.class_type
           section_name == InferSectionName(node_type)
           node == Node(DictGet(names, node_id), node_type, JsonConvertInputs(node_data.inputs))
       IN  IF JsonEntryRaises(node_data)
           THEN /\ j_pc' = "raised"
                /\ UNCHANGED <<sections_dict, j_i>>
           ELSE /\ sections_dict' =
                      DictSet(sections_dict, section_name,
                              Append(DictGetOr(sections_dict, section_name, <<>>), node))
                /\ j_i' = j_i + 1
                /\ UNCHANGED j_pc
    /\ UNCHANGED <<json_data, names, type_counts, j_ret, d_vars, x_vars>>

\* the sections are created and the Workflow is returned
JsonReturn ==
    /\ j_pc = "nodes"
    /\ j_i > Len(json_data)
    /\ j_ret' = [i \in 1..Len(sections_dict) |-> Section(sections_dict[i][1], sections_dict[i][2])]
    /\ j_pc' = "returned"
    /\ UNCHANGED <<json_data, j_i, names, type_counts, sections_dict, d_vars, x_vars>>

JsonNext == JsonEnter \/ JsonNameStep \/ JsonNamesExit \/ JsonNodeStep \/ JsonReturn


----------------------------------------------------------------------------
(* Inputs *)

\* the k-th smallest element of a set of integers
Kth(S, k) == CHOOSE x \in S : Cardinality({y \in S : y < x}) = k - 1

\* property and input names by position: p1, p2, ...
PropName(j) == S_p \o IntStr(j)

\* section headers of the input workflows by position: S1, S2, ...
HeaderName(j) == <<"S">> \o IntStr(j)

DslNames == {S_a, S_b}
DslTypes == {S_CheckpointLoaderSimple, S_Foo}
\* a literal, a connection to a, a connection to b by an output name no type
\* has, a connection to a name that no node carries
DslValues ==
    {AstStr(S_v), AstConn(S_a, S_clip), AstConn(S_b, S_bogus), AstConn(S_z, S_clip)}

\* the value lists of n nodes: at most max values in all
RECURSIVE ValueLists(_, _, _)
ValueLists(n, Values, max) ==
    IF n = 0 THEN {<<>>}
    ELSE UNION {
            {<<l>> \o rest : rest \in ValueLists(n - 1, Values, max - Len(l))}
            : l \in UNION {[1..m -> Values] : m \in 0..max}}

\* the nodes cut into sections after the positions of cuts
CutSections(nodes, cuts) ==
    IF nodes = <<>> THEN <<>>
    ELSE [j \in 1..(Cardinality(cuts) + 1) |->
            Section(HeaderName(j),
                    SubSeq(nodes,
                           IF j = 1 THEN 1 ELSE Kth(cuts, j - 1) + 1,
                           IF j = Cardinality(cuts) + 1 THEN Len(nodes) ELSE Kth(cuts, j)))]

\* a workflow handed to DslToJsonConverter.convert: nodes of the names nm, the
\* types ty and the property values vl, cut into non-empty sections (two nodes
\* may carry one name: neither the parser nor the AST rejects it)
MakeWorkflow(n, nm, ty, vl, cuts) ==
    CutSections([i \in 1..n |->
                    Node(nm[i], ty[i],
                         [j \in 1..Len(vl[i]) |-> Property(PropName(j), vl[i][j])])],
                cuts)

JsonTypes == {S_CheckpointLoaderSimple, S_Foo, S_Foo_1}
\* connections to "1" (slot 1), to "2" (slot 3, which no type lists), to the
\* int 1 (slot 0) and to "9" (never an id of the graph); a 1-element list and
\* a string
JsonValues ==
    {JsonList(<<ScalStr(IntStr(1)), ScalInt(1)>>),
     JsonList(<<ScalStr(IntStr(2)), ScalInt(3)>>),
     JsonList(<<ScalInt(1), ScalInt(0)>>),
     JsonList(<<ScalStr(IntStr(9)), ScalInt(0)>>),
     JsonList(<<ScalInt(5)>>),
     JsonStr(S_v)}

\* the ids "1".."n" in the insertion orders tried: ascending and descending
IdOrders(n) == {[i \in 1..n |-> IntStr(i)], [i \in 1..n |-> IntStr(n + 1 - i)]}

\* a simplified graph handed to JsonToDslConverter.convert
MakeGraph(n, ids, ty, vl) ==
    [i \in 1..n |->
        <<ids[i], [class_type |-> ty[i],
                   inputs |-> [j \in 1..Len(vl[i]) |-> <<PropName(j), vl[i][j]>>]]>>]

----------------------------------------------------------------------------
(* Specifications *)

\* the DslToJsonConverter after __init__, no call yet
DslConstructed ==
    /\ node_id_map = <<>>
    /\ node_type_map = <<>>
    /\ next_id = 1
    /\ result = <<>>
    /\ d_i = 0
    /\ d_ret = <<>>

\* no JsonToDslConverter.convert call yet
JsonConstructed ==
    /\ names = <<>>
    /\ type_counts = <<>>
    /\ sections_dict = <<>>
    /\ j_i = 0
    /\ j_ret = <<>>

\* no second thread
SecondThreadIdle ==
    /\ workflow2 = <<>>
    /\ d2_pc = "idle"
    /\ d2_i = 0
    /\ result2 = <<>>
    /\ d2_ret = <<>>

\* no full_workflow_to_simplified call
NormalizerIdle ==
    /\ full_data = <<>>
    /\ n_pc = "idle"
    /\ n_ret = <<>>

\* no DSLParser.parse call
ParserIdle ==
    /\ p_text = <<>>
    /\ p_pc = "idle"
    /\ p_ret = <<>>

\* no file tool call
FilesIdle ==
    /\ f_tool = "none"
    /\ f_path = <<>>
    /\ f_pc = "idle"
    /\ f_touched = <<>>

\* no sync_official_templates call on a manager just constructed
SyncIdle ==
    /\ templates = <<>>
    /\ s_input = <<>>
    /\ s_results = <<>>
    /\ s_cache = <<>>
    /\ s_pc = "idle"
    /\ s_ret = <<>>

\* no execute_workflow call
ExecIdle ==
    /\ e_wait = FALSE
    /\ e_timeout = 0
    /\ e_pc = "idle"
    /\ e_elapsed = 0
    /\ e_history = "none"
    /\ e_status = "none"

\* the components a specification of the converters leaves alone
ToolsIdle ==
    /\ FilesIdle
    /\ SyncIdle
    /\ ExecIdle

RestIdle ==
    /\ ParserIdle
    /\ ToolsIdle

\* test_dsl_json_dsl_roundtrip: the graph convert returned goes to
\* JsonToDslConverter.convert
FeedGraph ==
    /\ d_pc = "returned"
    /\ j_pc = "idle"
    /\ json_data' = d_ret
    /\ j_pc' = "ready"
    /\ UNCHANGED <<j_i, names, type_counts, sections_dict, j_ret, d_vars, x_vars>>

\* test_json_dsl_json_roundtrip: the Workflow convert returned goes to
\* DslToJsonConverter.convert
FeedWorkflow ==
    /\ j_pc = "returned"
    /\ d_pc = "idle"
    /\ workflow' = j_ret
    /\ d_pc' = "ready"
    /\ UNCHANGED <<node_id_map, node_type_map, next_id, d_i, result, d_ret, j_vars, x_vars>>

\* a Workflow is handed to a freshly constructed DslToJsonConverter
InitDsl ==
    /\ DslConstructed
    /\ JsonConstructed
    /\ SecondThreadIdle
    /\ NormalizerIdle
    /\ calls = 0
    /\ RestIdle
    /\ \E n \in 0..MaxNodes :
          \E nm \in [1..n -> DslNames], ty \in [1..n -> DslTypes],
             vl \in ValueLists(n, DslValues, MaxProps), cuts \in SUBSET (1..(n - 1)) :
             workflow = MakeWorkflow(n, nm, ty, vl, cuts)
    /\ d_pc = "ready"
    /\ json_data = <<>>
    /\ j_pc = "idle"

\* one DslToJsonConverter.convert call
SpecDsl == InitDsl /\ [][DslNext]_vars

\* the round trip Workflow -> graph -> Workflow
NextDslRound == DslNext \/ FeedGraph \/ JsonNext

SpecDslRound == InitDsl /\ [][NextDslRound]_vars

\* a graph is handed to a freshly constructed JsonToDslConverter
InitGraph ==
    /\ DslConstructed
    /\ JsonConstructed
    /\ SecondThreadIdle
    /\ NormalizerIdle
    /\ calls = 0
    /\ RestIdle
    /\ \E n \in 0..MaxEntries :
          \E ids \in IdOrders(n), ty \in [1..n -> JsonTypes],
             vl \in ValueLists(n, JsonValues, MaxInputs) :
             json_data = MakeGraph(n, ids, ty, vl)
    /\ j_pc = "ready"
    /\ workflow = <<>>
    /\ d_pc = "idle"

\* one JsonToDslConverter.convert call
SpecGraph == InitGraph /\ [][JsonNext]_vars

\* the round trip graph -> Workflow -> graph
NextGraphRound == JsonNext \/ FeedWorkflow \/ DslNext

SpecGraphRound == InitGraph /\ [][NextGraphRound]_vars


----------------------------------------------------------------------------
(* Vocabulary of the properties *)

BagOfSeq(seq) ==
    [x \in {seq[i] : i \in 1..Len(seq)} |-> Cardinality({i \in 1..Len(seq) : seq[i] = x})]

NodeTypes(nodes) == [i \in 1..Len(nodes) |-> nodes[i].node_type]
NodeNames(nodes) == [i \in 1..Len(nodes) |-> nodes[i].name]
ClassTypes(graph) == [i \in 1..Len(graph) |-> graph[i][2].class_type]

\* the nodes of the workflow handed to DslToJsonConverter.convert
InNodes == FlatNodes(workflow)

\* DslToJsonConverter.convert has returned d_ret, and no other call is running
DslReturned == d_pc = "returned" /\ j_pc \in {"idle", "returned"}

\* JsonToDslConverter.convert has returned j_ret, and no other call is running
JsonReturned == j_pc = "returned" /\ d_pc \in {"idle", "returned"}

\* the position of the last node declared with a name
LastDeclared(name) ==
    CHOOSE i \in 1..Len(InNodes) :
        /\ InNodes[i].name = name
        /\ \A j \in (i + 1)..Len(InNodes) : InNodes[j].name # name

Declared(name) == \E i \in 1..Len(InNodes) : InNodes[i].name = name

\* the slot DEFAULT_OUTPUT_MAPPINGS lists for an output of a type, 0 without one
TableSlot(node_type, output) ==
    LET hits == {e \in {<<i, j>> : i \in 1..Len(DEFAULT_OUTPUT_MAPPINGS), j \in 1..3} :
                    /\ DEFAULT_OUTPUT_MAPPINGS[e[1]][1] = node_type
                    /\ e[2] <= Len(DEFAULT_OUTPUT_MAPPINGS[e[1]][2])
                    /\ DEFAULT_OUTPUT_MAPPINGS[e[1]][2][e[2]][1] = output}
    IN  IF hits = {} THEN 0
        ELSE LET e == CHOOSE h \in hits : TRUE
             IN  DEFAULT_OUTPUT_MAPPINGS[e[1]][2][e[2]][2]

\* the pair a Connection is to be emitted as
ExpectedPair(value) ==
    JsonList(<<ScalStr(IntStr(LastDeclared(value.node))),
               ScalInt(TableSlot(InNodes[LastDeclared(value.node)].node_type, value.output))>>)

\* some Connection of the workflow names a node declared nowhere in it
HasUnresolved ==
    \E i \in 1..Len(InNodes) : \E j \in 1..Len(InNodes[i].properties) :
        /\ InNodes[i].properties[j].value.k = "conn"
        /\ ~Declared(InNodes[i].properties[j].value.node)

LiteralOnly ==
    \A i \in 1..Len(InNodes) : \A j \in 1..Len(InNodes[i].properties) :
        InNodes[i].properties[j].value.k # "conn"

----------------------------------------------------------------------------
(* DslToJsonConverter: C1, C2, C3 *)

\* C1: a workflow of N nodes, two nodes of one name included, is converted to
\* a graph of exactly N records with the keys "1".."N", and the record at key
\* k has the class_type of the k-th node in section-then-node order.
C1_RecordPerNode ==
    DslReturned =>
        /\ Len(d_ret) = Len(InNodes)
        /\ DictKeys(d_ret) = {IntStr(k) : k \in 1..Len(InNodes)}
        /\ \A k \in 1..Len(InNodes) :
              /\ DictHas(d_ret, IntStr(k))
              /\ DictGet(d_ret, IntStr(k)).class_type = InNodes[k].node_type

\* C2: the record the second pass emits for a node holds, for each property
\* that is a Connection to a declared name n with output o, the pair
\* [id of n, slot], the slot being the table's for (node_type of n, o) and 0
\* when the type or the output is not in the table (of several nodes named n,
\* the last one declared is the one whose id and type pass 1 leaves).
C2_ConnectionPair ==
    ((d_pc = "pass2" \/ DslReturned) /\ d_i > 1) =>
        LET node == InNodes[d_i - 1]
            record == DictGet(result, IntStr(LastDeclared(node.name)))
        IN  /\ record.class_type = node.node_type
            /\ \A j \in 1..Len(node.properties) :
                  node.properties[j].value.k = "conn" =>
                      /\ DictHas(record.inputs, node.properties[j].name)
                      /\ DictGet(record.inputs, node.properties[j].name)
                            = ExpectedPair(node.properties[j].value)

\* a node with two Connections is emitted: one takes slot 1 from the table,
\* the other names an output its target's type does not list and takes slot 0
C2_Witness ==
    /\ d_pc = "returned"
    /\ j_pc = "idle"
    /\ \E i \in 1..Len(d_ret) :
          LET inputs == d_ret[i][2].inputs
          IN  /\ Len(inputs) = 2
              /\ inputs[1][2].k = "list" /\ inputs[1][2].items[2] = ScalInt(1)
              /\ inputs[2][2].k = "list" /\ inputs[2][2].items[2] = ScalInt(0)
              /\ InNodes[LastDeclared(S_b)].node_type = S_CheckpointLoaderSimple

\* C3: a Connection to a name declared nowhere in the workflow makes convert
\* raise, wherever the property is: a call that returns, has a graph to hand
\* out, or has emitted its last node had no such Connection in its workflow.
C3_UnresolvedRaises ==
    (\/ d_pc = "returned"
     \/ d_ret # <<>>
     \/ (d_pc = "pass2" /\ d_i > Len(InNodes))) => ~HasUnresolved

\* the second property of the second node is the unresolved one, after a
\* record was already put into result
C3_Witness ==
    /\ d_pc = "raised"
    /\ Len(InNodes) = 2
    /\ d_i = 2
    /\ Len(result) = 1
    /\ Len(InNodes[2].properties) = 2
    /\ Declared(InNodes[2].properties[1].value.node)
    /\ InNodes[2].properties[2].value = AstConn(S_z, S_clip)


----------------------------------------------------------------------------
(* JsonToDslConverter: C4, C5, C8, C9, C10 *)

\* the nodes of the Workflow JsonToDslConverter.convert returned
OutNodes == FlatNodes(j_ret)

\* the position of the entry with an id
EntryOf(id) == CHOOSE i \in 1..Len(json_data) : json_data[i][1] = id

\* some input is a 2-element list whose first element is no id of the graph
HasDangling ==
    \E i \in 1..Len(json_data) : \E j \in 1..Len(json_data[i][2].inputs) :
        LET value == json_data[i][2].inputs[j][2]
        IN  /\ value.k = "list"
            /\ Len(value.items) = 2
            /\ \A e \in 1..Len(json_data) : json_data[e][1] # ScalToStr(value.items[1])

\* the base name of the i-th entry
BaseName(i) == TypeToName(json_data[i][2].class_type)

\* the name the i-th entry is to get: the base name for the first entry of a
\* base name, base_k for the k-th further one
ExpectedName(i) ==
    LET k == Cardinality({e \in 1..(i - 1) : BaseName(e) = BaseName(i)})
    IN  IF k = 0 THEN BaseName(i) ELSE BaseName(i) \o <<"_">> \o IntStr(k)

\* the node made from the i-th entry: in the section of its label, after the
\* nodes of the earlier entries with that label
NodeOfEntry(i) ==
    LET label == InferSectionName(json_data[i][2].class_type)
        rank == Cardinality({e \in 1..i : InferSectionName(json_data[e][2].class_type) = label})
        sec == CHOOSE x \in 1..Len(j_ret) : j_ret[x].header = label
    IN  j_ret[sec].nodes[rank]

\* the output name of slot n of a type by DEFAULT_OUTPUT_MAPPINGS read
\* backwards, output_<n> when the type or the slot is not there
TableOutput(node_type, n) ==
    LET hits == {e \in {<<i, j>> : i \in 1..Len(DEFAULT_OUTPUT_MAPPINGS), j \in 1..3} :
                    /\ DEFAULT_OUTPUT_MAPPINGS[e[1]][1] = node_type
                    /\ e[2] <= Len(DEFAULT_OUTPUT_MAPPINGS[e[1]][2])
                    /\ DEFAULT_OUTPUT_MAPPINGS[e[1]][2][e[2]][2] = n}
    IN  IF hits = {} THEN S_output_ \o IntStr(n)
        ELSE LET e == CHOOSE h \in hits : TRUE
             IN  DEFAULT_OUTPUT_MAPPINGS[e[1]][2][e[2]][1]

\* C4: a graph of N entries whose connections all target ids of the graph is
\* converted: convert returns a Workflow of exactly N nodes, one per entry
\* with the entry's class_type, each in exactly one section.
C4_NodePerEntry ==
    /\ j_pc = "raised" => HasDangling
    /\ JsonReturned =>
          /\ Len(OutNodes) = Len(json_data)
          /\ BagOfSeq(NodeTypes(OutNodes)) = BagOfSeq(ClassTypes(json_data))
          /\ \A i \in 1..Len(json_data) :
                NodeOfEntry(i).node_type = json_data[i][2].class_type
          /\ \A x, y \in 1..Len(j_ret) : j_ret[x].header = j_ret[y].header => x = y
          /\ \A x \in 1..Len(j_ret) : j_ret[x].nodes # <<>>

\* three entries, one with a connection, end in two sections
C4_Witness ==
    /\ j_pc = "returned"
    /\ d_pc = "idle"
    /\ Len(json_data) = 3
    /\ Len(j_ret) = 2
    /\ \E i \in 1..3 : \E j \in 1..Len(OutNodes[i].properties) :
          OutNodes[i].properties[j].value.k = "conn"

\* C5: the node names of a returned Workflow are pairwise distinct across the
\* whole workflow, whatever the class_type values of the graph.
C5_NamesDistinct ==
    JsonReturned =>
        \A x, y \in 1..Len(OutNodes) : OutNodes[x].name = OutNodes[y].name => x = y

\* C8: an input becomes a Connection exactly when it is a 2-element list
\* [t, s]; the Connection names the node made from entry t and the output the
\* table read backwards gives for (class_type of t, s), output_<s> without one.
C8_ConnectionValue ==
    JsonReturned =>
        \A i \in 1..Len(json_data) :
            /\ Len(NodeOfEntry(i).properties) = Len(json_data[i][2].inputs)
            /\ \A j \in 1..Len(json_data[i][2].inputs) :
                  LET value == json_data[i][2].inputs[j][2]
                      prop == NodeOfEntry(i).properties[j]
                      t == EntryOf(ScalToStr(value.items[1]))
                  IN  /\ prop.name = json_data[i][2].inputs[j][1]
                      /\ (prop.value.k = "conn") <=> (value.k = "list" /\ Len(value.items) = 2)
                      /\ prop.value.k = "conn" =>
                            /\ prop.value.node = ExpectedName(t)
                            /\ prop.value.node = NodeOfEntry(t).name
                            /\ prop.value.output
                                  = TableOutput(json_data[t][2].class_type, value.items[2].n)

\* a connection to slot 1 of a CheckpointLoaderSimple came out as @checkpoint.clip
C8_Witness ==
    /\ j_pc = "returned"
    /\ d_pc = "idle"
    /\ \E i \in 1..Len(OutNodes) :
          /\ OutNodes[i].properties # <<>>
          /\ OutNodes[i].properties[1].value = AstConn(S_checkpoint, S_clip)

\* C9: a 2-element list whose first element is no id of the graph makes
\* convert raise: a call that returns, has a Workflow to hand out, or has
\* converted its last entry had no such input in its graph.
C9_DanglingRaises ==
    (\/ j_pc = "returned"
     \/ j_ret # <<>>
     \/ (j_pc = "nodes" /\ j_i > Len(json_data))) => ~HasDangling

\* the third entry holds the dangling connection, after two nodes were made
C9_Witness ==
    /\ j_pc = "raised"
    /\ j_i = 3
    /\ Len(sections_dict) >= 1
    /\ json_data[3][2].inputs # <<>>

\* C10: of the entries sharing a base name, the first one encountered gets the
\* bare base name and the k-th further one gets base_k, in encounter order.
C10_SuffixOrder ==
    /\ (j_pc \in {"nodes", "raised"} \/ JsonReturned) =>
          \A i \in 1..Len(json_data) : DictGet(names, json_data[i][1]) = ExpectedName(i)
    /\ JsonReturned =>
          \A i \in 1..Len(json_data) : NodeOfEntry(i).name = ExpectedName(i)

\* three entries of one base name, inserted with descending ids: the names
\* follow the insertion order
C10_Witness ==
    /\ j_pc = "returned"
    /\ d_pc = "idle"
    /\ Len(json_data) = 3
    /\ json_data[1][1] = IntStr(3)
    /\ NodeNames(OutNodes) = <<S_checkpoint, S_checkpoint \o <<"_", "1">>, S_checkpoint \o <<"_", "2">> >>

----------------------------------------------------------------------------
(* Round trips: C6, C7 *)

\* C6: a Workflow of literal property values converted to a graph and back
\* keeps the multiset of its node_type values.
C6_DslRoundTripTypes ==
    (JsonReturned /\ LiteralOnly) =>
        BagOfSeq(NodeTypes(OutNodes)) = BagOfSeq(NodeTypes(InNodes))

\* C7: a graph whose connections all target ids of the graph, converted to a
\* Workflow and back, gives a graph of as many records and of the same
\* multiset of class_type values; the way back does not fail.
C7_GraphRoundTripTypes ==
    /\ d_pc # "raised"
    /\ DslReturned =>
          /\ Len(d_ret) = Len(json_data)
          /\ BagOfSeq(ClassTypes(d_ret)) = BagOfSeq(ClassTypes(json_data))

----------------------------------------------------------------------------
(* Order of the graph's entries: C11 *)

\* the number an id of the graph spells
IdNum(id) == CHOOSE n \in 1..Len(json_data) : IntStr(n) = id

\* the name entry i gets when the ids are visited in ascending numeric order
AscendingName(i) ==
    LET k == Cardinality({h \in 1..Len(json_data) :
                            /\ IdNum(json_data[h][1]) < IdNum(json_data[i][1])
                            /\ BaseName(h) = BaseName(i)})
    IN  IF k = 0 THEN BaseName(i) ELSE BaseName(i) \o <<"_">> \o IntStr(k)

\* C11: the returned Workflow depends only on the graph as a mapping: the
\* names are those of a visit of the ids in ascending numeric order, whatever
\* the insertion order of the entries (so two insertion orders of one mapping
\* give the same names).
C11_AscendingIdOrder ==
    JsonReturned =>
        \A i \in 1..Len(json_data) : NodeOfEntry(i).name = AscendingName(i)

----------------------------------------------------------------------------
(* Section labels: C12 *)

S_VAELoader == <<"V","A","E","L","o","a","d","e","r">>
S_CLIPLoader == <<"C","L","I","P","L","o","a","d","e","r">>
S_SaveLatent == <<"S","a","v","e","L","a","t","e","n","t">>
S_SamplerCustom == <<"S","a","m","p","l","e","r","C","u","s","t","o","m">>

\* class_type values that meet none, one or several of the substring tests
SectionTypes ==
    {S_CheckpointLoaderSimple, S_VAELoader, S_CLIPLoader, S_CLIPTextEncode,
     S_EmptyLatentImage, S_SaveLatent, S_KSampler, S_SamplerCustom, S_VAEDecode,
     S_SaveImage, S_LoadImage, S_Foo}

\* a graph without inputs is handed to a freshly constructed JsonToDslConverter
InitSections ==
    /\ DslConstructed
    /\ JsonConstructed
    /\ SecondThreadIdle
    /\ NormalizerIdle
    /\ calls = 0
    /\ RestIdle
    /\ \E n \in 0..MaxSectionEntries :
          \E ty \in [1..n -> SectionTypes] :
             json_data = MakeGraph(n, [i \in 1..n |-> IntStr(i)], ty, [i \in 1..n |-> <<>>])
    /\ j_pc = "ready"
    /\ workflow = <<>>
    /\ d_pc = "idle"

\* one JsonToDslConverter.convert call on such a graph
SpecSections == InitSections /\ [][JsonNext]_vars

\* the ordered rules of the claim: substrings and the label they give
SectionRules ==
    << <<{S_Checkpoint, S_Loader}, S_ModelLoading>>,
       <<{S_CLIP, S_TextEncode}, S_TextConditioning>>,
       <<{S_Latent}, S_Latent>>,
       <<{S_Sampler}, S_Sampling>>,
       <<{S_VAE, S_Save}, S_Output>> >>

\* the label of the first rule one of whose substrings occurs in the type,
\* Processing when no rule matches
FirstMatchLabel(node_type) ==
    LET hits == {r \in 1..Len(SectionRules) :
                    \E sub \in SectionRules[r][1] : Contains(sub, node_type)}
    IN  IF hits = {} THEN S_Processing
        ELSE SectionRules[CHOOSE r \in hits : \A q \in hits : r <= q][2]

\* C12: the node made from an entry sits in the section whose header is the
\* label of the first matching rule of its class_type (Checkpoint or Loader,
\* then CLIP or TextEncode, then Latent, then Sampler, then VAE or Save, else
\* Processing), and in no other section.
C12_SectionByFirstMatch ==
    JsonReturned =>
        \A i \in 1..Len(json_data) :
            \A x \in 1..Len(j_ret) :
                (\E y \in 1..Len(j_ret[x].nodes) :
                    /\ j_ret[x].nodes[y].name = ExpectedName(i)
                    /\ j_ret[x].nodes[y].node_type = json_data[i][2].class_type)
                <=> j_ret[x].header = FirstMatchLabel(json_data[i][2].class_type)

\* a VAELoader (Loader and VAE) and a SaveLatent (Latent and Save) came out
\* under Model Loading and Latent
C12_Witness ==
    /\ j_pc = "returned"
    /\ Len(json_data) = 2
    /\ json_data[1][2].class_type = S_VAELoader
    /\ json_data[2][2].class_type = S_SaveLatent
    /\ Len(j_ret) = 2
    /\ j_ret[1].header = S_ModelLoading
    /\ j_ret[1].nodes[1].node_type = S_VAELoader
    /\ j_ret[2].header = S_Latent
    /\ j_ret[2].nodes[1].node_type = S_SaveLatent

----------------------------------------------------------------------------
(* Two threads on one DslToJsonConverter: C13 *)

\* the steps of DslToJsonConverter.convert taken by a second thread on the
\* same instance: the instance fields are the same variables, the argument
\* and the locals are the thread's own

\* convert, lines 36-40
Dsl2Enter ==
    /\ d2_pc = "ready"
    /\ node_id_map' = <<>>
    /\ node_type_map' = <<>>
    /\ next_id' = 1
    /\ result2' = <<>>
    /\ d2_i' = 1
    /\ d2_pc' = "pass1"
    /\ UNCHANGED <<workflow, d_pc, d_i, result, d_ret, workflow2, d2_ret, j_vars, calls, n_vars, o_vars>>

\* first pass, one node
Dsl2Pass1Step ==
    /\ d2_pc = "pass1"
    /\ d2_i <= Len(FlatNodes(workflow2))
    /\ LET node == FlatNodes(workflow2)[d2_i]
           node_id == IntStr(next_id)
       IN  /\ node_id_map' = DictSet(node_id_map, node.name, node_id)
           /\ node_type_map' = DictSet(node_type_map, node.name, node.node_type)
           /\ next_id' = next_id + 1
    /\ d2_i' = d2_i + 1
    /\ UNCHANGED <<workflow, d_pc, d_i, result, d_ret, workflow2, d2_pc, result2, d2_ret,
                   j_vars, calls, n_vars, o_vars>>

\* the first pass's loops end
Dsl2Pass1Exit ==
    /\ d2_pc = "pass1"
    /\ d2_i > Len(FlatNodes(workflow2))
    /\ d2_pc' = "pass2"
    /\ d2_i' = 1
    /\ UNCHANGED <<d_vars, workflow2, result2, d2_ret, j_vars, calls, n_vars, o_vars>>

\* second pass, one node
Dsl2Pass2Step ==
    /\ d2_pc = "pass2"
    /\ d2_i <= Len(FlatNodes(workflow2))
    /\ LET node == FlatNodes(workflow2)[d2_i]
       IN  IF ~DictHas(node_id_map, node.name) \/ DslNodeRaises(node)
           THEN /\ d2_pc' = "raised"
                /\ UNCHANGED <<result2, d2_i>>
           ELSE /\ result2' = DictSet(result2, DictGet(node_id_map, node.name), DslConvertNode(node))
                /\ d2_i' = d2_i + 1
                /\ UNCHANGED d2_pc
    /\ UNCHANGED <<d_vars, workflow2, d2_ret, j_vars, calls, n_vars, o_vars>>

\* return result
Dsl2Return ==
    /\ d2_pc = "pass2"
    /\ d2_i > Len(FlatNodes(workflow2))
    /\ d2_ret' = result2
    /\ d2_pc' = "returned"
    /\ UNCHANGED <<d_vars, workflow2, d2_i, result2, j_vars, calls, n_vars, o_vars>>

Dsl2Next == Dsl2Enter \/ Dsl2Pass1Step \/ Dsl2Pass1Exit \/ Dsl2Pass2Step \/ Dsl2Return

\* a literal and a connection to a
SharedValues == {AstStr(S_v), AstConn(S_a, S_clip)}

\* the workflows of one thread: nodes of pairwise distinct names, types of
\* Types, at most one property in all
SharedWorkflows(Types) ==
    UNION {{MakeWorkflow(n, nm, ty, vl, {}) :
              nm \in {f \in [1..n -> DslNames] : \A x, y \in 1..n : f[x] = f[y] => x = y},
              ty \in [1..n -> Types],
              vl \in ValueLists(n, SharedValues, 1)}
           : n \in 1..MaxSharedNodes}

\* two threads hand a workflow each to the one converter; the second
\* thread's nodes are all of a type that the output table does not list
InitShared ==
    /\ DslConstructed
    /\ JsonConstructed
    /\ NormalizerIdle
    /\ calls = 0
    /\ RestIdle
    /\ workflow \in SharedWorkflows(DslTypes)
    /\ workflow2 \in SharedWorkflows({S_Foo})
    /\ d_pc = "ready"
    /\ d2_pc = "ready"
    /\ d2_i = 0
    /\ result2 = <<>>
    /\ d2_ret = <<>>
    /\ json_data = <<>>
    /\ j_pc = "idle"

NextShared == DslNext \/ Dsl2Next

\* the two calls interleaved at every step
SpecShared == InitShared /\ [][NextShared]_vars

\* the id table and the type table a call run alone has after its first pass
RECURSIVE AloneIds(_, _, _)
AloneIds(nodes, k, ids) ==
    IF k > Len(nodes) THEN ids
    ELSE AloneIds(nodes, k + 1, DictSet(ids, nodes[k].name, IntStr(k)))

RECURSIVE AloneTypes(_, _, _)
AloneTypes(nodes, k, types) ==
    IF k > Len(nodes) THEN types
    ELSE AloneTypes(nodes, k + 1, DictSet(types, nodes[k].name, nodes[k].node_type))

\* the value a call run alone emits for a property value
AloneValue(nodes, value) ==
    IF value.k = "conn"
    THEN JsonList(<<ScalStr(DictGet(AloneIds(nodes, 1, <<>>), value.node)),
                    ScalInt(TableSlot(DictGet(AloneTypes(nodes, 1, <<>>), value.node),
                                      value.output))>>)
    ELSE DslConvertValue(value)

RECURSIVE AloneInputs(_, _, _, _)
AloneInputs(nodes, properties, j, inputs) ==
    IF j > Len(properties) THEN inputs
    ELSE AloneInputs(nodes, properties, j + 1,
             DictSet(inputs, properties[j].name, AloneValue(nodes, properties[j].value)))

\* a call run alone raises: some Connection names a node of no declaration
AloneRaises(nodes) ==
    \E i \in 1..Len(nodes) : \E j \in 1..Len(nodes[i].properties) :
        /\ nodes[i].properties[j].value.k = "conn"
        /\ \A h \in 1..Len(nodes) : nodes[h].name # nodes[i].properties[j].value.node

\* the graph a call run alone returns
RECURSIVE AloneGraph(_, _, _)
AloneGraph(nodes, k, graph) ==
    IF k > Len(nodes) THEN graph
    ELSE AloneGraph(nodes, k + 1,
             DictSet(graph, DictGet(AloneIds(nodes, 1, <<>>), nodes[k].name),
                     [class_type |-> nodes[k].node_type,
                      inputs |-> AloneInputs(nodes, nodes[k].properties, 1, <<>>)]))

\* C13: two convert calls interleaved on one shared converter each end as
\* the same call ends when run alone: the same graph when that one returns,
\* an exception only when that one raises.
C13_CallsIsolated ==
    /\ d_pc = "returned" =>
          /\ ~AloneRaises(FlatNodes(workflow))
          /\ d_ret = AloneGraph(FlatNodes(workflow), 1, <<>>)
    /\ d_pc = "raised" => AloneRaises(FlatNodes(workflow))
    /\ d2_pc = "returned" =>
          /\ ~AloneRaises(FlatNodes(workflow2))
          /\ d2_ret = AloneGraph(FlatNodes(workflow2), 1, <<>>)
    /\ d2_pc = "raised" => AloneRaises(FlatNodes(workflow2))

----------------------------------------------------------------------------
(* One DslToJsonConverter reused for several calls: C14 *)

\* a literal, a connection to a, a connection to b
ReuseValues == {AstStr(S_v), AstConn(S_a, S_clip), AstConn(S_b, S_bogus)}

\* the workflows handed to the reused converter: at most one property in all
ReuseWorkflows ==
    UNION {{MakeWorkflow(n, nm, ty, vl, {}) :
              nm \in [1..n -> DslNames], ty \in [1..n -> DslTypes],
              vl \in ValueLists(n, ReuseValues, 1)}
           : n \in 1..MaxReuseNodes}

\* dsl_to_workflow once more: the call before has returned or raised, and the
\* module-level converter is handed the next workflow; the instance fields
\* stay as that call left them, its locals are gone
DslCallAgain ==
    /\ d_pc \in {"returned", "raised"}
    /\ calls < MaxEarlierCalls
    /\ calls' = calls + 1
    /\ workflow' \in ReuseWorkflows
    /\ d_pc' = "ready"
    /\ d_i' = 0
    /\ result' = <<>>
    /\ d_ret' = <<>>
    /\ UNCHANGED <<node_id_map, node_type_map, next_id, j_vars, t_vars, n_vars, o_vars>>

InitReuse ==
    /\ DslConstructed
    /\ JsonConstructed
    /\ SecondThreadIdle
    /\ NormalizerIdle
    /\ calls = 0
    /\ RestIdle
    /\ workflow \in ReuseWorkflows
    /\ d_pc = "ready"
    /\ json_data = <<>>
    /\ j_pc = "idle"

NextReuse == DslNext \/ DslCallAgain

\* convert calls one after another on one converter
SpecReuse == InitReuse /\ [][NextReuse]_vars

\* C14: on a reused converter a convert call ends as on a fresh one, whatever
\* calls came before and however they ended: it returns the graph the call
\* run alone returns, with ids from "1", and it raises exactly when a
\* Connection names a node its own workflow does not declare.
C14_ReuseIndependent ==
    /\ d_pc = "returned" =>
          /\ ~AloneRaises(InNodes)
          /\ d_ret = AloneGraph(InNodes, 1, <<>>)
          /\ DictKeys(d_ret) \subseteq {IntStr(k) : k \in 1..Len(InNodes)}
    /\ d_pc = "raised" => AloneRaises(InNodes)
    /\ d_pc = "pass2" => next_id = Len(InNodes) + 1

\* a converter that has been used before is handed b: Foo with p1: @a.clip,
\* and the call raises
C14_Witness ==
    /\ calls >= 1
    /\ d_pc = "raised"
    /\ Len(InNodes) = 1
    /\ InNodes[1].name = S_b
    /\ InNodes[1].properties # <<>>
    /\ InNodes[1].properties[1].value = AstConn(S_a, S_clip)

----------------------------------------------------------------------------
(* Literal values through both converters: C15 *)

\* True, False, 0, 1, 42, 3.5, 'v', '1'
LiteralAstValues ==
    {AstBool(TRUE), AstBool(FALSE), AstInt(0), AstInt(1), AstInt(42), AstFloat(3),
     AstStr(S_v), AstStr(IntStr(1))}

\* True, False, 0, 1, 1.5, 'v', '1', [5], [], ['v', 1, True]
LiteralJsonValues ==
    {JsonBool(TRUE), JsonBool(FALSE), JsonInt(0), JsonInt(1), JsonFloat(1),
     JsonStr(S_v), JsonStr(IntStr(1)), JsonList(<<ScalInt(5)>>), JsonList(<<>>),
     JsonList(<<ScalStr(S_v), ScalInt(1), ScalBool(TRUE)>>)}

\* a one-node workflow of literal properties is handed to a fresh
\* DslToJsonConverter
InitLiteralsDsl ==
    /\ \E m \in 1..MaxLiterals : \E vl \in [1..m -> LiteralAstValues] :
          workflow = MakeWorkflow(1, <<S_a>>, <<S_Foo>>, <<vl>>, {})
    /\ d_pc = "ready"
    /\ json_data = <<>>
    /\ j_pc = "idle"

\* a one-entry graph of literal inputs is handed to a fresh JsonToDslConverter
InitLiteralsGraph ==
    /\ \E m \in 1..MaxLiterals : \E vl \in [1..m -> LiteralJsonValues] :
          json_data = MakeGraph(1, <<IntStr(1)>>, <<S_Foo>>, <<vl>>)
    /\ j_pc = "ready"
    /\ workflow = <<>>
    /\ d_pc = "idle"

InitLiterals ==
    /\ DslConstructed
    /\ JsonConstructed
    /\ SecondThreadIdle
    /\ NormalizerIdle
    /\ calls = 0
    /\ RestIdle
    /\ (InitLiteralsDsl \/ InitLiteralsGraph)

NextLiterals == DslNext \/ JsonNext

\* one call of either converter on literal values
SpecLiterals == InitLiterals /\ [][NextLiterals]_vars

\* the one rule for a value of kind k (payloads b, n) and string form str:
\* out is the same bool, the same int, the same float, or else the string
PassedByRule(k, b, n, str, out) ==
    CASE k = "bool" -> out.k = "bool" /\ out.b = b
      [] k = "int" -> out.k = "int" /\ out.n = n
      [] k = "float" -> out.k = "float" /\ out.n = n
      [] OTHER -> out.k = "str" /\ out.s = str

\* C15: both converters pass a value that is no connection by one rule: a
\* bool stays the same bool (it never becomes a number), an int or a float
\* stays the same number, anything else becomes its string form.
C15_LiteralRule ==
    /\ DslReturned =>
          \A i \in 1..Len(InNodes) : \A j \in 1..Len(InNodes[i].properties) :
              LET value == InNodes[i].properties[j].value
                  out == DictGet(DictGet(d_ret, IntStr(i)).inputs, InNodes[i].properties[j].name)
              IN  value.k # "conn" => PassedByRule(value.k, value.b, value.n, value.s, out)
    /\ JsonReturned =>
          \A i \in 1..Len(json_data) : \A j \in 1..Len(json_data[i][2].inputs) :
              LET value == json_data[i][2].inputs[j][2]
                  out == NodeOfEntry(i).properties[j].value
              IN  ~(value.k = "list" /\ Len(value.items) = 2) =>
                      PassedByRule(value.k, value.b, value.n, JsonToStr(value), out)

\* the inputs True and [5] of a graph came out as the bool True and the
\* string '[5]'
C15_Witness ==
    /\ j_pc = "returned"
    /\ d_pc = "idle"
    /\ Len(json_data) = 1
    /\ Len(json_data[1][2].inputs) = 2
    /\ json_data[1][2].inputs[1][2] = JsonBool(TRUE)
    /\ json_data[1][2].inputs[2][2] = JsonList(<<ScalInt(5)>>)
    /\ OutNodes[1].properties[1].value = AstBool(TRUE)
    /\ OutNodes[1].properties[2].value = AstStr(<<"[", "5", "]">>)

----------------------------------------------------------------------------
(* Format detection and normalization: C16 .. C20 *)

\* The blobs handed to the format helpers are JSON documents [t, v]: t is
\* "dict" (v the <<key, value>> pairs), "list" (v the items), "int" (v the
\* number in a 1-tuple), "str" (v the characters) or "none".
BlobDict(pairs) == [t |-> "dict", v |-> pairs]
BlobList(items) == [t |-> "list", v |-> items]
BlobInt(n) == [t |-> "int", v |-> <<n>>]
BlobStr(str) == [t |-> "str", v |-> str]
BlobNone == [t |-> "none", v |-> <<>>]

S_workflow == <<"w","o","r","k","f","l","o","w">>
S_nodes == <<"n","o","d","e","s">>
S_links == <<"l","i","n","k","s">>

\* is_full_workflow_format as first defined (lines 236-238); the definition
\* of lines 328-345 replaces it when the module is loaded
IsFullWorkflowFormatFirst(data) ==
    /\ data.t = "dict"
    /\ DictHas(data.v, S_nodes)
    /\ DictGet(data.v, S_nodes).t = "list"

\* is_full_workflow_format (lines 328-345)
IsFullWorkflowFormat(data) ==
    IF data.t # "dict" THEN FALSE
    ELSE IF DictHas(data.v, S_workflow) /\ DictGet(data.v, S_workflow).t = "dict" THEN TRUE
    ELSE IF DictHas(data.v, S_nodes) \/ DictHas(data.v, S_links) THEN TRUE
    ELSE FALSE

\* full_workflow_to_simplified, line 357
NormDetect ==
    /\ n_pc = "ready"
    /\ n_pc' = IF IsFullWorkflowFormat(full_data) THEN "full" ELSE "simplified"
    /\ UNCHANGED <<full_data, n_ret, d_vars, j_vars, calls, t_vars, o_vars>>

\* full_workflow_to_simplified, line 358
NormPass ==
    /\ n_pc = "simplified"
    /\ n_ret' = full_data
    /\ n_pc' = "returned"
    /\ UNCHANGED <<full_data, d_vars, j_vars, calls, t_vars, o_vars>>

\* full_workflow_to_simplified, lines 361-387, with the nodes test first
NormExtractNodesFirst ==
    /\ n_pc = "full"
    /\ IF DictHas(full_data.v, S_nodes)
       THEN n_pc' = "raised" /\ UNCHANGED n_ret
       ELSE IF DictHas(full_data.v, S_workflow)
       THEN n_ret' = DictGet(full_data.v, S_workflow) /\ n_pc' = "returned"
       ELSE n_ret' = full_data /\ n_pc' = "returned"
    /\ UNCHANGED <<full_data, d_vars, j_vars, calls, t_vars, o_vars>>

\* full_workflow_to_simplified, lines 361-387: the value of the workflow key;
\* else, with a nodes key, the link table is built and line 385 calls
\* convert_nodes_format_to_simplified, a name that is defined nowhere
\* (NameError, or before it the IndexError of a short link); else the blob
NormExtract ==
    /\ n_pc = "full"
    /\ IF DictHas(full_data.v, S_workflow)
       THEN n_ret' = DictGet(full_data.v, S_workflow) /\ n_pc' = "returned"
       ELSE IF DictHas(full_data.v, S_nodes)
       THEN n_pc' = "raised" /\ UNCHANGED n_ret
       ELSE n_ret' = full_data /\ n_pc' = "returned"
    /\ UNCHANGED <<full_data, d_vars, j_vars, calls, t_vars, o_vars>>

NormNext == NormDetect \/ NormPass \/ NormExtract

S_extra == <<"e","x","t","r","a">>
S_id == <<"i","d">>
S_type == <<"t","y","p","e">>
S_inputs == <<"i","n","p","u","t","s">>
S_widgets_values == <<"w","i","d","g","e","t","s","_","v","a","l","u","e","s">>
S_name == <<"n","a","m","e">>
S_link == <<"l","i","n","k">>
S_class_type == <<"c","l","a","s","s","_","t","y","p","e">>
S_param_ == <<"p","a","r","a","m","_">>

\* a key that a blob does not have
Absent == [t |-> "absent", v |-> <<>>]

\* the simplified graph {"1": {"class_type": "Foo", "inputs": {}}}
SimplifiedBlob ==
    BlobDict(<< <<IntStr(1), BlobDict(<< <<S_class_type, BlobStr(S_Foo)>>,
                                         <<S_inputs, BlobDict(<<>>)>> >>)>> >>)

\* values of the workflow key: a simplified graph, {"nodes": []} (as in
\* test_is_full_workflow_format_full), {"workflow": graph}, 5, None, []
WorkflowValues ==
    {SimplifiedBlob, BlobDict(<< <<S_nodes, BlobList(<<>>)>> >>),
     BlobDict(<< <<S_workflow, SimplifiedBlob>> >>), BlobInt(5), BlobNone, BlobList(<<>>)}

\* the link id of the one link of the link list
LinkId == 7

\* values of the links key: no link; link 7 from slot 1 of node 1 to node 2;
\* a link of three elements
LinksValues ==
    {BlobList(<<>>),
     BlobList(<<BlobList(<<BlobInt(LinkId), BlobInt(1), BlobInt(1), BlobInt(2), BlobInt(0),
                           BlobStr(S_CLIP)>>)>>),
     BlobList(<<BlobList(<<BlobInt(LinkId), BlobInt(1), BlobInt(1)>>)>>)}

InputDef(name, link) == BlobDict(<< <<S_name, BlobStr(name)>>, <<S_link, link>> >>)

\* declared inputs of a node record: none; p1 on link 7; p1 on link 7 and p2
\* on no link; p1 on no link and p2 on link 7
InputsValues ==
    {<<>>,
     <<InputDef(PropName(1), BlobInt(LinkId))>>,
     <<InputDef(PropName(1), BlobInt(LinkId)), InputDef(PropName(2), BlobNone)>>,
     <<InputDef(PropName(1), BlobNone), InputDef(PropName(2), BlobInt(LinkId))>>}

\* widgets_values of a node record
WidgetsValues == {<<>>, <<BlobInt(5), BlobStr(S_v)>>}

NodeRecord(id, type, inputs, widgets) ==
    BlobDict(<< <<S_id, BlobInt(id)>>, <<S_type, BlobStr(type)>>,
                <<S_inputs, BlobList(inputs)>>, <<S_widgets_values, BlobList(widgets)>> >>)

\* values of the nodes key: n node records of the ids 1..n
NodesValues ==
    UNION {{BlobList([i \in 1..n |-> NodeRecord(i, ty[i], ins[i], ws[i])]) :
              ty \in [1..n -> DslTypes], ins \in [1..n -> InputsValues],
              ws \in [1..n -> WidgetsValues]}
           : n \in 0..MaxBlobNodes}

OptionalKey(key, value) == IF value.t = "absent" THEN <<>> ELSE << <<key, value>> >>

\* a blob is handed to full_workflow_to_simplified: a mapping with any of the
\* keys workflow, extra, nodes, links, or a simplified graph, a list, None, a
\* string
InitBlob ==
    /\ DslConstructed
    /\ JsonConstructed
    /\ SecondThreadIdle
    /\ calls = 0
    /\ RestIdle
    /\ workflow = <<>>
    /\ d_pc = "idle"
    /\ json_data = <<>>
    /\ j_pc = "idle"
    /\ \/ \E w \in WorkflowValues \cup {Absent}, e \in {BlobDict(<<>>), Absent},
             l \in LinksValues \cup {Absent} :
             \E n \in NodesValues \cup {Absent} :
                full_data = BlobDict(OptionalKey(S_workflow, w) \o OptionalKey(S_extra, e)
                                     \o OptionalKey(S_nodes, n) \o OptionalKey(S_links, l))
       \/ full_data \in {SimplifiedBlob, BlobList(<<>>), BlobNone, BlobStr(S_v)}
    /\ n_pc = "ready"
    /\ n_ret = <<>>

\* one full_workflow_to_simplified call
SpecBlob == InitBlob /\ [][NormNext]_vars

\* full_workflow_to_simplified has returned n_ret
NormReturned == n_pc = "returned"

\* full_workflow_to_simplified has returned or raised
NormEnded == n_pc \in {"returned", "raised"}

\* a mapping has a key
HasKey(data, key) == \E i \in 1..Len(data.v) : data.v[i][1] = key

\* the detection rule: a mapping with a workflow key whose value is a
\* mapping, or with a nodes key, or with a links key
FullByRule(data) ==
    /\ data.t = "dict"
    /\ \/ \E i \in 1..Len(data.v) : data.v[i][1] = S_workflow /\ data.v[i][2].t = "dict"
       \/ HasKey(data, S_nodes)
       \/ HasKey(data, S_links)

\* C16: is_full_workflow_format answers true exactly for a mapping with a
\* workflow key whose value is a mapping, or with a nodes key, or with a links
\* key; it answers false for everything else, a simplified graph included.
C16_DetectionRule ==
    /\ n_pc = "full" => FullByRule(full_data)
    /\ n_pc = "simplified" => ~FullByRule(full_data)
    /\ (n_pc # "ready" /\ full_data = SimplifiedBlob) => n_pc \in {"simplified", "returned"}

\* {"workflow": 5} is detected as not full: the key's value is no mapping
C16_Witness ==
    /\ n_pc = "simplified"
    /\ full_data = BlobDict(<< <<S_workflow, BlobInt(5)>> >>)

\* a node-list blob: nodes and links keys, no workflow key
IsNodeList(data) ==
    /\ data.t = "dict"
    /\ HasKey(data, S_nodes)
    /\ HasKey(data, S_links)
    /\ ~HasKey(data, S_workflow)

\* the node records of a node-list blob, and the id and the type of a record
BlobNodes(data) == DictGet(data.v, S_nodes).v
RecordId(record) == IntStr(DictGet(record.v, S_id).v[1])
RecordType(record) == DictGet(record.v, S_type)

\* C17: for a node-list blob of N node records with distinct ids,
\* full_workflow_to_simplified returns a simplified graph of exactly N
\* records, keyed by str(id), each with the node's type as class_type.
C17_RecordPerNodeRecord ==
    (NormEnded /\ IsNodeList(full_data)) =>
        /\ n_pc = "returned"
        /\ n_ret.t = "dict"
        /\ Len(n_ret.v) = Len(BlobNodes(full_data))
        /\ \A i \in 1..Len(BlobNodes(full_data)) :
              LET record == BlobNodes(full_data)[i]
              IN  /\ HasKey(n_ret, RecordId(record))
                  /\ DictGet(DictGet(n_ret.v, RecordId(record)).v, S_class_type)
                        = RecordType(record)

\* the widgets_values entries no declared input has claimed become param_0,
\* param_1, ...
RECURSIVE LeftoverWidgets(_, _, _, _)
LeftoverWidgets(widgets, w, k, inputs) ==
    IF w > Len(widgets) THEN inputs
    ELSE LeftoverWidgets(widgets, w + 1, k + 1,
             DictSet(inputs, S_param_ \o IntStr(k), widgets[w]))

\* the walk of the declared inputs in order: an input whose link id is in the
\* link table becomes [str(source node id), source slot]; any other input
\* takes the next unclaimed widgets_values entry, if one is left
RECURSIVE WalkInputs(_, _, _, _, _, _)
WalkInputs(defs, i, widgets, w, links, inputs) ==
    IF i > Len(defs) THEN LeftoverWidgets(widgets, w, 0, inputs)
    ELSE LET name == DictGet(defs[i].v, S_name).v
             link_id == DictGet(defs[i].v, S_link)
             hits == {h \in 1..Len(links) : links[h].v[1] = link_id}
         IN  IF hits # {}
             THEN LET link == links[CHOOSE h \in hits : \A q \in hits : q <= h]
                  IN  WalkInputs(defs, i + 1, widgets, w, links,
                          DictSet(inputs, name,
                                  BlobList(<<BlobStr(IntStr(link.v[2].v[1])), link.v[3]>>)))
             ELSE IF w <= Len(widgets)
             THEN WalkInputs(defs, i + 1, widgets, w + 1, links,
                      DictSet(inputs, name, widgets[w]))
             ELSE WalkInputs(defs, i + 1, widgets, w, links, inputs)

\* C18: normalizing a node-list blob gives every node the inputs of the walk:
\* linked inputs as [source_node_id, source_slot] without consuming a widget
\* value, the other inputs the next unclaimed widgets_values entries, the
\* leftover entries as param_0, param_1, ...
C18_InputWalk ==
    (NormEnded /\ IsNodeList(full_data)) =>
        /\ n_pc = "returned"
        /\ n_ret.t = "dict"
        /\ \A i \in 1..Len(BlobNodes(full_data)) :
              LET record == BlobNodes(full_data)[i]
              IN  /\ HasKey(n_ret, RecordId(record))
                  /\ DictGet(DictGet(n_ret.v, RecordId(record)).v, S_inputs)
                        = BlobDict(WalkInputs(DictGet(record.v, S_inputs).v, 1,
                                              DictGet(record.v, S_widgets_values).v, 1,
                                              DictGet(full_data.v, S_links).v, <<>>))

\* C19 as stated: whenever the blob has a top-level workflow key,
\* full_workflow_to_simplified returns exactly that key's value, whatever
\* other keys are present; a blob that is not full format is returned
\* unchanged.
C19_WorkflowKeyValue ==
    /\ (NormEnded /\ full_data.t = "dict" /\ HasKey(full_data, S_workflow)) =>
          /\ n_pc = "returned"
          /\ n_ret = DictGet(full_data.v, S_workflow)
    /\ (NormEnded /\ ~FullByRule(full_data)) =>
          /\ n_pc = "returned"
          /\ n_ret = full_data

\* C19: whenever a blob of full format has a top-level workflow key (the
\* key's value is a mapping, or a nodes or links key is present as well),
\* full_workflow_to_simplified returns exactly that key's value, whatever
\* other keys are present; a blob that is not full format is returned
\* unchanged, also when it has a workflow key.
C19_FullWorkflowKeyValue ==
    /\ (NormEnded /\ FullByRule(full_data) /\ HasKey(full_data, S_workflow)) =>
          /\ n_pc = "returned"
          /\ n_ret = DictGet(full_data.v, S_workflow)
    /\ (NormEnded /\ ~FullByRule(full_data)) =>
          /\ n_pc = "returned"
          /\ n_ret = full_data

\* a blob with the keys workflow, extra, nodes and links came back as the
\* value of its workflow key
C19_Witness ==
    /\ n_pc = "returned"
    /\ full_data.t = "dict"
    /\ DictKeys(full_data.v) = {S_workflow, S_extra, S_nodes, S_links}
    /\ Len(BlobNodes(full_data)) = MaxBlobNodes
    /\ n_ret = SimplifiedBlob

\* C20: whatever full_workflow_to_simplified returns is not full format, so
\* normalizing it again returns it unchanged.
C20_NormalizedIsSimplified == NormReturned => ~IsFullWorkflowFormat(n_ret)

----------------------------------------------------------------------------
(* The AST as text (ast_nodes.py __str__) and DSLParser.parse (parser.py) *)

S_true == <<"t","r","u","e">>
S_false == <<"f","a","l","s","e">>
S_indent == <<" "," ">>
S_colon == <<":"," ">>
S_hashes == <<"#","#"," ">>
S_newline == <<"\n">>
S_blank == <<"\n","\n">>

\* Connection.__str__ and the value part of Property.__str__
ValueStr(value) ==
    CASE value.k = "conn" -> <<"@">> \o value.node \o <<".">> \o value.output
      [] value.k = "bool" -> IF value.b THEN S_true ELSE S_false
      [] value.k = "int" -> IntStr(value.n)
      [] value.k = "float" -> IntStr(value.n) \o <<".", "5">>
      [] value.k = "str" -> value.s

PropertyStr(p) == S_indent \o p.name \o S_colon \o ValueStr(p.value)

\* sep.join(parts)
RECURSIVE Join(_, _)
Join(sep, parts) ==
    IF parts = <<>> THEN <<>>
    ELSE IF Len(parts) = 1 THEN parts[1]
    ELSE parts[1] \o sep \o Join(sep, Tail(parts))

NodeStr(n) ==
    IF n.properties = <<>> THEN n.name \o S_colon \o n.node_type
    ELSE n.name \o S_colon \o n.node_type \o S_newline
         \o Join(S_newline, [i \in 1..Len(n.properties) |-> PropertyStr(n.properties[i])])

SectionStr(sec) ==
    S_hashes \o sec.header \o S_blank
    \o Join(S_blank, [i \in 1..Len(sec.nodes) |-> NodeStr(sec.nodes[i])])

WorkflowStr(sections) ==
    IF sections = <<>> THEN <<>>
    ELSE Join(S_blank, [i \in 1..Len(sections) |-> SectionStr(sections[i])]) \o S_newline

\* str.strip(), for spaces
RECURSIVE LStrip(_)
LStrip(s) == IF s # <<>> /\ Head(s) = " " THEN LStrip(Tail(s)) ELSE s
RECURSIVE RStrip(_)
RStrip(s) == IF s # <<>> /\ s[Len(s)] = " " THEN RStrip(SubSeq(s, 1, Len(s) - 1)) ELSE s
Strip(s) == RStrip(LStrip(s))

\* int(num_str) of a text of digits
DigitValue(c) == (CHOOSE i \in 1..10 : DigitChar[i] = c) - 1
RECURSIVE IntOf(_)
IntOf(s) ==
    IF s = <<>> THEN 0 ELSE 10 * IntOf(SubSeq(s, 1, Len(s) - 1)) + DigitValue(s[Len(s)])

\* the first position of character c in s, 0 when there is none
FirstIndex(c, s) ==
    IF \E i \in 1..Len(s) : s[i] = c
    THEN CHOOSE i \in 1..Len(s) : s[i] = c /\ \A j \in 1..(i - 1) : s[j] # c
    ELSE 0

\* WorkflowTransformer callbacks
connection(node, output) == AstConn(node, output)

\* float(num_str) if "." in num_str else int(num_str); the float texts of
\* the inputs end in .5, the floats the value records can carry
number_value(num_str) ==
    IF FirstIndex(".", num_str) # 0
    THEN AstFloat(IntOf(SubSeq(num_str, 1, FirstIndex(".", num_str) - 1)))
    ELSE AstInt(IntOf(num_str))

boolean_value(item) == AstBool(item = S_true)

string_valueNoStrip(item) == AstStr(item)
string_value(item) == AstStr(Strip(item))

header(item) == Strip(item)

\* grammar.lark: the lexical forms of a property value
Digits == {DigitChar[i] : i \in 1..10}
Letters == DOMAIN UpperToLower \cup {UpperToLower[c] : c \in DOMAIN UpperToLower}
IsName(s) == s # <<>> /\ \A i \in 1..Len(s) : s[i] \in Letters \cup Digits \cup {"_"}
IsBooleanForm(t) == t \in {S_true, S_false}
IsNumberForm(t) ==
    /\ \A i \in 1..Len(t) : t[i] \in Digits \cup {"."}
    /\ \E i \in 1..Len(t) : t[i] \in Digits
    /\ Cardinality({i \in 1..Len(t) : t[i] = "."}) <= 1
IsConnectionForm(t) ==
    /\ t # <<>>
    /\ t[1] = "@"
    /\ FirstIndex(".", t) # 0
    /\ IsName(SubSeq(t, 2, FirstIndex(".", t) - 1))
    /\ IsName(SubSeq(t, FirstIndex(".", t) + 1, Len(t)))

\* grammar.lark with the Earley parser and ambiguity="resolve": the
\* alternatives of a value in their order, each handed to its callback
ParseValue(t) ==
    IF IsBooleanForm(t) THEN boolean_value(t)
    ELSE IF IsNumberForm(t) THEN number_value(t)
    ELSE IF IsConnectionForm(t)
    THEN connection(SubSeq(t, 2, FirstIndex(".", t) - 1),
                    SubSeq(t, FirstIndex(".", t) + 1, Len(t)))
    ELSE string_value(t)

StartsWith(pre, s) == Len(s) >= Len(pre) /\ SubSeq(s, 1, Len(pre)) = pre

\* text.split("\n")
RECURSIVE SplitLines(_)
SplitLines(text) ==
    IF FirstIndex("\n", text) = 0 THEN <<text>>
    ELSE <<SubSeq(text, 1, FirstIndex("\n", text) - 1)>>
         \o SplitLines(SubSeq(text, FirstIndex("\n", text) + 1, Len(text)))

\* the sections with one more node in the last one
AddNode(secs, n) ==
    [secs EXCEPT ![Len(secs)].nodes = Append(@, n)]

\* the sections with one more property in the last node of the last one
AddProperty(secs, p) ==
    [secs EXCEPT ![Len(secs)].nodes =
        [@ EXCEPT ![Len(@)].properties = Append(@, p)]]

ParseFailed == [ok |-> FALSE, sections |-> <<>>]

\* grammar.lark: a workflow is sections; a section is a "## header" line
\* and one or more node blocks; a node block is "name: type" and indented
\* "name: value" lines; blank lines separate. Anything else fails.
RECURSIVE ParseLines(_, _)
ParseLines(lines, secs) ==
    IF lines = <<>>
    THEN IF \E i \in 1..Len(secs) : secs[i].nodes = <<>>
         THEN ParseFailed
         ELSE [ok |-> TRUE, sections |-> secs]
    ELSE LET line == Head(lines)
             c == FirstIndex(":", line)
         IN  IF Strip(line) = <<>> THEN ParseLines(Tail(lines), secs)
             ELSE IF StartsWith(S_hashes, line)
             THEN IF secs # <<>> /\ secs[Len(secs)].nodes = <<>>
                  THEN ParseFailed
                  ELSE ParseLines(Tail(lines),
                         Append(secs, Section(header(SubSeq(line, 4, Len(line))), <<>>)))
             ELSE IF StartsWith(S_indent, line)
             THEN IF /\ secs # <<>>
                     /\ secs[Len(secs)].nodes # <<>>
                     /\ c # 0
                     /\ IsName(SubSeq(line, 3, c - 1))
                     /\ Len(line) >= c + 2
                     /\ line[c + 1] = " "
                  THEN ParseLines(Tail(lines),
                         AddProperty(secs, Property(SubSeq(line, 3, c - 1),
                                        ParseValue(SubSeq(line, c + 2, Len(line))))))
                  ELSE ParseFailed
             ELSE IF /\ secs # <<>>
                     /\ c # 0
                     /\ IsName(SubSeq(line, 1, c - 1))
                     /\ IsName(Strip(SubSeq(line, c + 1, Len(line))))
                  THEN ParseLines(Tail(lines),
                         AddNode(secs, Node(SubSeq(line, 1, c - 1),
                                    Strip(SubSeq(line, c + 1, Len(line))), <<>>)))
                  ELSE ParseFailed

\* DSLParser.parse(text): the tree of the grammar, transformed
ParserParse ==
    /\ p_pc = "ready"
    /\ LET r == ParseLines(SplitLines(p_text), <<>>)
       IN  IF r.ok
           THEN p_pc' = "returned" /\ p_ret' = r.sections
           ELSE p_pc' = "raised" /\ p_ret' = <<>>
    /\ UNCHANGED <<p_text, c_vars, f_vars, s_vars, e_vars>>

----------------------------------------------------------------------------
(* The lexical form of a property value: C21 *)

\* value texts with the value test_property_types and the value forms of
\* the grammar give each: true, false, True, truex, "true " (a trailing
\* space), 1, 42, 007, 3.5, 0.5, 1.2.3, "4 2", 4x, @a.clip, @b.out_1,
\* a.clip, v, hello world, " v "
ValueTable ==
    { <<S_true, AstBool(TRUE)>>,
      <<S_false, AstBool(FALSE)>>,
      <<<<"T","r","u","e">>, AstStr(<<"T","r","u","e">>)>>,
      <<<<"t","r","u","e","x">>, AstStr(<<"t","r","u","e","x">>)>>,
      <<<<"t","r","u","e"," ">>, AstStr(S_true)>>,
      <<<<"1">>, AstInt(1)>>,
      <<<<"4","2">>, AstInt(42)>>,
      <<<<"0","0","7">>, AstInt(7)>>,
      <<<<"3",".","5">>, AstFloat(3)>>,
      <<<<"0",".","5">>, AstFloat(0)>>,
      <<<<"1",".","2",".","3">>, AstStr(<<"1",".","2",".","3">>)>>,
      <<<<"4"," ","2">>, AstStr(<<"4"," ","2">>)>>,
      <<<<"4","x">>, AstStr(<<"4","x">>)>>,
      <<<<"@","a",".","c","l","i","p">>, AstConn(S_a, S_clip)>>,
      <<<<"@","b",".","o","u","t","_","1">>, AstConn(S_b, <<"o","u","t","_","1">>)>>,
      <<<<"a",".","c","l","i","p">>, AstStr(<<"a",".","c","l","i","p">>)>>,
      <<S_v, AstStr(S_v)>>,
      <<<<"h","e","l","l","o"," ","w","o","r","l","d">>,
        AstStr(<<"h","e","l","l","o"," ","w","o","r","l","d">>)>>,
      <<<<" ","v"," ">>, AstStr(S_v)>> }

ValueTexts == {e[1] : e \in ValueTable}

\* the text of one section S1 with one node, its property lines p1, p2, ..
\* carrying the value texts
ValueDocument(name, node_type, texts) ==
    S_hashes \o HeaderName(1) \o S_blank \o name \o S_colon \o node_type \o S_newline
    \o Join(S_newline, [i \in 1..Len(texts) |-> S_indent \o PropName(i) \o S_colon \o texts[i]])
    \o S_newline

\* a text of property lines is handed to DSLParser.parse
InitValues ==
    /\ DslConstructed
    /\ JsonConstructed
    /\ SecondThreadIdle
    /\ NormalizerIdle
    /\ calls = 0
    /\ workflow = <<>>
    /\ d_pc = "idle"
    /\ json_data = <<>>
    /\ j_pc = "idle"
    /\ ToolsIdle
    /\ \E m \in 1..MaxValueLines : \E texts \in [1..m -> ValueTexts] :
          p_text = ValueDocument(S_a, S_Foo, texts)
    /\ p_pc = "ready"
    /\ p_ret = <<>>

SpecValues == InitValues /\ [][ParserParse]_vars

\* the property lines of the text handed to the parser
ValueLines == SubSeq(SplitLines(p_text), 4, Len(SplitLines(p_text)) - 1)

\* C21: once parse has ended it has returned, never raised, and the value
\* of every property is the one its text's lexical form gives: a boolean
\* for exactly true and false, an int for digits, a float for digits with
\* one ".", a Connection for @name.name, else the text trimmed as a string
C21_LexicalForm ==
    p_pc # "ready" =>
        /\ p_pc = "returned"
        /\ Len(p_ret) = 1
        /\ Len(p_ret[1].nodes) = 1
        /\ Len(p_ret[1].nodes[1].properties) = Len(ValueLines)
        /\ \A i \in 1..Len(ValueLines) :
              \E e \in ValueTable :
                 /\ ValueLines[i] = S_indent \o PropName(i) \o S_colon \o e[1]
                 /\ p_ret[1].nodes[1].properties[i] = Property(PropName(i), e[2])

\* parse returned for p1: "true " (a string, trimmed) and p2: 3.5
C21_Witness ==
    /\ p_pc = "returned"
    /\ Len(ValueLines) = 2
    /\ p_ret[1].nodes[1].properties[1].value = AstStr(S_true)
    /\ ValueLines[1] = S_indent \o PropName(1) \o S_colon \o <<"t","r","u","e"," ">>
    /\ p_ret[1].nodes[1].properties[2].value = AstFloat(3)

----------------------------------------------------------------------------
(* Rendering a converted Workflow and parsing it again: C22 *)

\* api.py workflow_to_dsl, then dsl_to_workflow's parse: str(workflow_ast)
\* of the Workflow JsonToDslConverter.convert returned goes to the parser
RenderToParser ==
    /\ j_pc = "returned"
    /\ p_pc = "idle"
    /\ p_text' = WorkflowStr(j_ret)
    /\ p_pc' = "ready"
    /\ UNCHANGED <<p_ret, c_vars, f_vars, s_vars, e_vars>>

\* a one-entry graph of literal inputs is handed to a fresh
\* JsonToDslConverter, the parser waits for the text
InitRender ==
    /\ DslConstructed
    /\ JsonConstructed
    /\ SecondThreadIdle
    /\ NormalizerIdle
    /\ calls = 0
    /\ ParserIdle
    /\ ToolsIdle
    /\ InitLiteralsGraph

NextRender == JsonNext \/ RenderToParser \/ ParserParse

SpecRender == InitRender /\ [][NextRender]_vars

\* C22: parsing the text of a Workflow the Graph-to-DSL converter returned
\* succeeds and yields a Workflow equal to it, value types included
C22_RenderParseRoundTrip ==
    (j_pc = "returned" /\ p_pc \in {"returned", "raised"}) =>
        /\ p_pc = "returned"
        /\ p_ret = j_ret

----------------------------------------------------------------------------
(* The file tools of server.py and the path sandbox: C23 *)

\* A path argument is [abs, segs]: whether it starts with "/", and its
\* segments. A resolved path is the sequence of its segments from the root.
\* The file system has no symbolic links.
S_dotdot == <<".", ".">>
S_examples == <<"e","x","a","m","p","l","e","s">>
S_workflows == <<"w","o","r","k","f","l","o","w","s">>
S_dsl == <<"d","s","l">>
S_etc == <<"e","t","c">>
S_pkg == <<"p","k","g">>
S_mcp == <<"m","c","p">>
S_file == <<"f",".","d","s","l">>

\* Path.cwd(): the server runs in /pkg/mcp
Cwd == <<S_pkg, S_mcp>>
\* WORKFLOWS_BASE = Path.cwd() / "workflows"
WORKFLOWS_BASE == Cwd \o <<S_workflows>>
\* Path(__file__).parent.parent / "dsl" / "examples"
ExamplesDir == <<S_pkg, S_dsl, S_examples>>

\* str(path) of a path argument
PathStr(path) ==
    (IF path.abs THEN <<"/">> ELSE <<>>) \o Join(<<"/">>, path.segs)

\* str(path) of a resolved path
ResolvedStr(segs) == <<"/">> \o Join(<<"/">>, segs)

\* ".." leaves the last directory, and stays at the root
RECURSIVE Normalize(_, _)
Normalize(segs, acc) ==
    IF segs = <<>> THEN acc
    ELSE IF Head(segs) = S_dotdot
    THEN Normalize(Tail(segs), IF acc = <<>> THEN acc ELSE SubSeq(acc, 1, Len(acc) - 1))
    ELSE Normalize(Tail(segs), Append(acc, Head(segs)))

\* Path(filepath).resolve()
Resolve(path) == Normalize(IF path.abs THEN path.segs ELSE Cwd \o path.segs, <<>>)

\* path.relative_to(base) does not raise ValueError
RelativeTo(segs, base) ==
    Len(segs) >= Len(base) /\ SubSeq(segs, 1, Len(base)) = base

\* validate_path(filepath) returns (it raises ToolError otherwise)
validate_path(path) == RelativeTo(Resolve(path), WORKFLOWS_BASE)

\* read_workflow(filepath) of a .dsl file: the path is validated unless
\* "examples" occurs in the resolved path's string; then exists() and
\* read_text()
ReadWorkflow ==
    /\ f_pc = "ready"
    /\ f_tool = "read"
    /\ IF ~Contains(S_examples, ResolvedStr(Resolve(f_path))) /\ ~validate_path(f_path)
       THEN f_pc' = "denied" /\ f_touched' = <<>>
       ELSE \E exists \in BOOLEAN :
               IF exists
               THEN f_pc' = "done" /\ f_touched' = Resolve(f_path)
               ELSE f_pc' = "not_found" /\ f_touched' = <<>>
    /\ UNCHANGED <<f_tool, f_path, c_vars, p_vars, s_vars, e_vars>>

\* write_workflow(filepath, dsl, format): the path is always validated;
\* the text is written unless the format is unknown or the DSL does not
\* convert
WriteWorkflow ==
    /\ f_pc = "ready"
    /\ f_tool = "write"
    /\ IF ~validate_path(f_path)
       THEN f_pc' = "denied" /\ f_touched' = <<>>
       ELSE \E converts \in BOOLEAN :
               IF converts
               THEN f_pc' = "done" /\ f_touched' = Resolve(f_path)
               ELSE f_pc' = "failed" /\ f_touched' = <<>>
    /\ UNCHANGED <<f_tool, f_path, c_vars, p_vars, s_vars, e_vars>>

\* list_workflows(directory, pattern): the directory is validated unless
\* "examples" occurs in the argument's string; then exists() and glob on
\* the directory, which the system resolves from the working directory
ListWorkflows ==
    /\ f_pc = "ready"
    /\ f_tool = "list"
    /\ IF ~Contains(S_examples, PathStr(f_path)) /\ ~validate_path(f_path)
       THEN f_pc' = "denied" /\ f_touched' = <<>>
       ELSE \E exists \in BOOLEAN :
               IF exists
               THEN f_pc' = "done" /\ f_touched' = Resolve(f_path)
               ELSE f_pc' = "not_found" /\ f_touched' = <<>>
    /\ UNCHANGED <<f_tool, f_path, c_vars, p_vars, s_vars, e_vars>>

FilesNext == ReadWorkflow \/ WriteWorkflow \/ ListWorkflows

Segments == {S_dotdot, S_dsl, S_examples, S_workflows, S_etc, S_file}

\* a file tool is called with a path argument
InitFiles ==
    /\ DslConstructed
    /\ JsonConstructed
    /\ SecondThreadIdle
    /\ NormalizerIdle
    /\ calls = 0
    /\ workflow = <<>>
    /\ d_pc = "idle"
    /\ json_data = <<>>
    /\ j_pc = "idle"
    /\ ParserIdle
    /\ SyncIdle
    /\ ExecIdle
    /\ f_tool \in {"read", "write", "list"}
    /\ \E abs \in BOOLEAN : \E m \in 1..MaxSegments : \E segs \in [1..m -> Segments] :
          f_path = [abs |-> abs, segs |-> segs]
    /\ f_pc = "ready"
    /\ f_touched = <<>>

SpecFiles == InitFiles /\ [][FilesNext]_vars

\* the path argument resolves inside the workflows base directory or, for
\* read_workflow and list_workflows, inside the DSL examples directory
InSandbox ==
    \/ RelativeTo(Resolve(f_path), WORKFLOWS_BASE)
    \/ f_tool \in {"read", "list"} /\ RelativeTo(Resolve(f_path), ExamplesDir)

\* C23: a file tool reads, writes or lists a path only if it resolves
\* inside the sandbox, and every other path ends in access denied
C23_PathSandbox ==
    /\ f_pc = "done" => InSandbox /\ f_touched = Resolve(f_path)
    /\ (f_pc \notin {"idle", "ready"} /\ ~InSandbox) => f_pc = "denied"

----------------------------------------------------------------------------
(* OfficialTemplateManager.sync_official_templates (official.py): C24, C30 *)

S_dot_json == <<".","j","s","o","n">>
S_dot_webp == <<".","w","e","b","p">>
S_t == <<"t">>

EndsWith(suf, s) == Len(s) >= Len(suf) /\ SubSeq(s, Len(s) - Len(suf) + 1, Len(s)) = suf

\* SyncConfig defaults
skip_conversion_errors == TRUE
save_failed_conversions == TRUE

\* json_file["name"].replace(".json", ""), for a name that ends in .json
\* and holds it nowhere else
TemplateName(file_name) == SubSeq(file_name, 1, Len(file_name) - Len(S_dot_json))

\* an OfficialTemplate, by its key and whether dsl_content is a text or None
OfficialTemplate(name, has_dsl) == [name |-> name, has_dsl |-> has_dsl]

TaskRaised == [kind |-> "exception", name |-> <<>>, has_dsl |-> FALSE]
TaskNone == [kind |-> "none", name |-> <<>>, has_dsl |-> FALSE]
TaskTemplate(name, has_dsl) == [kind |-> "template", name |-> name, has_dsl |-> has_dsl]
TaskPending == [kind |-> "pending", name |-> <<>>, has_dsl |-> FALSE]

\* _process_template(json_file): the download raises after the retries, or
\* the conversion raises and the configuration decides, or the template
\* is returned under its name
_process_templateDropFailed(json_file) ==
    IF ~json_file.download_ok THEN TaskRaised
    ELSE IF ~json_file.converts THEN TaskNone
    ELSE TaskTemplate(TemplateName(json_file.name), TRUE)
_process_template(json_file) ==
    IF ~json_file.download_ok THEN TaskRaised
    ELSE IF ~json_file.converts
    THEN IF ~skip_conversion_errors THEN TaskRaised
         ELSE IF ~save_failed_conversions THEN TaskNone
         ELSE TaskTemplate(TemplateName(json_file.name), FALSE)
    ELSE TaskTemplate(TemplateName(json_file.name), TRUE)

\* the items of template_list that are .json files
RECURSIVE JsonFiles(_)
JsonFiles(template_list) ==
    IF template_list = <<>> THEN <<>>
    ELSE IF EndsWith(S_dot_json, Head(template_list).name)
    THEN <<Head(template_list)>> \o JsonFiles(Tail(template_list))
    ELSE JsonFiles(Tail(template_list))

\* synced_templates of the results, in task order
RECURSIVE Collect(_, _)
Collect(results, synced) ==
    IF results = <<>> THEN synced
    ELSE IF Head(results).kind = "template"
    THEN Collect(Tail(results),
                 DictSet(synced, Head(results).name,
                         OfficialTemplate(Head(results).name, Head(results).has_dsl)))
    ELSE Collect(Tail(results), synced)

\* sync_official_templates up to the tasks: fetch_template_list raised, or
\* one task per .json file is made
SyncEnter ==
    /\ s_pc = "ready"
    /\ IF s_input.fetch_ok
       THEN /\ s_results' = [i \in 1..Len(JsonFiles(s_input.files)) |-> TaskPending]
            /\ s_pc' = "gather"
       ELSE /\ s_results' = <<>>
            /\ s_pc' = "fallback"
    /\ UNCHANGED <<templates, s_input, s_cache, s_ret, c_vars, p_vars, f_vars, e_vars>>

\* one of the gathered tasks runs to its end
ProcessTemplate ==
    /\ s_pc = "gather"
    /\ \E i \in 1..Len(s_results) :
          /\ s_results[i] = TaskPending
          /\ s_results' = [s_results EXCEPT ![i] = _process_template(JsonFiles(s_input.files)[i])]
    /\ UNCHANGED <<templates, s_input, s_cache, s_pc, s_ret, c_vars, p_vars, f_vars, e_vars>>

\* gather has returned: the templates are collected, cached, stored and
\* returned; when writing the cache file raises, the file is as it was or
\* broken, and the except branch is taken
SyncCollect ==
    /\ s_pc = "gather"
    /\ \A i \in 1..Len(s_results) : s_results[i] # TaskPending
    /\ IF s_input.cache_ok
       THEN /\ s_cache' = Collect(s_results, <<>>)
            /\ templates' = Collect(s_results, <<>>)
            /\ s_ret' = Collect(s_results, <<>>)
            /\ s_pc' = "returned"
       ELSE /\ s_cache' \in {s_cache, <<>>}
            /\ s_pc' = "fallback"
            /\ UNCHANGED <<templates, s_ret>>
    /\ UNCHANGED <<s_input, s_results, c_vars, p_vars, f_vars, e_vars>>

\* except Exception: return await self._load_cached_templates()
SyncFallback ==
    /\ s_pc = "fallback"
    /\ s_ret' = s_cache
    /\ s_pc' = "returned"
    /\ UNCHANGED <<templates, s_input, s_results, s_cache, c_vars, p_vars, f_vars, e_vars>>

SyncNext == SyncEnter \/ ProcessTemplate \/ SyncCollect \/ SyncFallback

\* entry i of the fetched list: t<i>.json or its preview t<i>.webp
TemplateFile(i, is_json, download_ok, converts) ==
    [name |-> S_t \o IntStr(i) \o (IF is_json THEN S_dot_json ELSE S_dot_webp),
     download_ok |-> download_ok, converts |-> converts]

\* the cache file of an earlier run: none, or t1 with its DSL
CacheFiles == {<<>>, << <<S_t \o IntStr(1), OfficialTemplate(S_t \o IntStr(1), TRUE)>> >>}

\* a manager just constructed is asked to sync
InitSync ==
    /\ DslConstructed
    /\ JsonConstructed
    /\ SecondThreadIdle
    /\ NormalizerIdle
    /\ calls = 0
    /\ workflow = <<>>
    /\ d_pc = "idle"
    /\ json_data = <<>>
    /\ j_pc = "idle"
    /\ ParserIdle
    /\ FilesIdle
    /\ ExecIdle
    /\ templates = <<>>
    /\ \E fetch_ok, cache_ok \in BOOLEAN : \E m \in 0..MaxTemplates :
       \E flags \in [1..m -> BOOLEAN \X BOOLEAN \X BOOLEAN] :
          s_input = [fetch_ok |-> fetch_ok, cache_ok |-> cache_ok,
                     files |-> [i \in 1..m |->
                                  TemplateFile(i, flags[i][1], flags[i][2], flags[i][3])]]
    /\ s_results = <<>>
    /\ s_cache \in CacheFiles
    /\ s_pc = "ready"
    /\ s_ret = <<>>

SpecSync == InitSync /\ [][SyncNext]_vars

\* the sync fetched the list and wrote the cache file
SyncedFromNetwork == s_pc = "returned" /\ s_input.fetch_ok /\ s_input.cache_ok

C30_TemplatesIsReturned ==
    s_pc = "returned" => templates = s_ret

----------------------------------------------------------------------------
(* execute_workflow and its polling loop (server.py): C25 *)

\* await asyncio.sleep(2)
PollSleep == 2

\* what one get_history call reports of the prompt: no entry, an entry not
\* completed, completed with status_str "success", completed with another
\* status_str
HistoryReports == {"absent", "running", "success", "error"}

\* execute_workflow up to the loop: parsing, converting or queue_prompt
\* raises, or the prompt is queued and the call returns at once or takes
\* start_time
ExecSubmit ==
    /\ e_pc = "ready"
    /\ \E submitted \in BOOLEAN :
          IF ~submitted
          THEN e_pc' = "raised" /\ e_status' = "none"
          ELSE /\ e_status' = "queued"
               /\ e_pc' = IF e_wait THEN "loop" ELSE "returned"
    /\ UNCHANGED <<e_wait, e_timeout, e_elapsed, e_history, c_vars, p_vars, f_vars, s_vars>>

\* one round of while True: the timeout check, get_history (which returns
\* or raises within the client's timeout), the completed check, the sleep
ExecPollAnyCompleted ==
    /\ e_pc = "loop"
    /\ IF e_elapsed > e_timeout
       THEN /\ e_status' = "timeout"
            /\ e_pc' = "returned"
            /\ UNCHANGED <<e_elapsed, e_history>>
       ELSE \/ /\ e_pc' = "raised"
               /\ UNCHANGED <<e_elapsed, e_history, e_status>>
            \/ \E report \in HistoryReports :
                  /\ e_history' = report
                  /\ IF report \in {"success", "error"}
                     THEN /\ e_status' = "completed"
                          /\ e_pc' = "returned"
                          /\ UNCHANGED e_elapsed
                     ELSE /\ \E latency \in 0..MaxLatency :
                                e_elapsed' = e_elapsed + PollSleep + latency
                          /\ UNCHANGED <<e_pc, e_status>>
    /\ UNCHANGED <<e_wait, e_timeout, c_vars, p_vars, f_vars, s_vars>>
ExecPoll ==
    /\ e_pc = "loop"
    /\ IF e_elapsed > e_timeout
       THEN /\ e_status' = "timeout"
            /\ e_pc' = "returned"
            /\ UNCHANGED <<e_elapsed, e_history>>
       ELSE \/ /\ e_pc' = "raised"
               /\ UNCHANGED <<e_elapsed, e_history, e_status>>
            \/ \E report \in HistoryReports :
                  /\ e_history' = report
                  /\ IF report \in {"success", "error"}
                     THEN /\ e_status' = IF report = "success" THEN "completed" ELSE "failed"
                          /\ e_pc' = "returned"
                          /\ UNCHANGED e_elapsed
                     ELSE /\ \E latency \in 0..MaxLatency :
                                e_elapsed' = e_elapsed + PollSleep + latency
                          /\ UNCHANGED <<e_pc, e_status>>
    /\ UNCHANGED <<e_wait, e_timeout, c_vars, p_vars, f_vars, s_vars>>

ExecNext == ExecSubmit \/ ExecPoll

\* execute_workflow is called
InitExec ==
    /\ DslConstructed
    /\ JsonConstructed
    /\ SecondThreadIdle
    /\ NormalizerIdle
    /\ calls = 0
    /\ workflow = <<>>
    /\ d_pc = "idle"
    /\ json_data = <<>>
    /\ j_pc = "idle"
    /\ ParserIdle
    /\ FilesIdle
    /\ SyncIdle
    /\ e_wait \in BOOLEAN
    /\ e_timeout \in 0..MaxTimeout
    /\ e_pc = "ready"
    /\ e_elapsed = 0
    /\ e_history = "none"
    /\ e_status = "none"

SpecExec == InitExec /\ [][ExecNext]_vars

\* the event loop resumes the coroutine after every await: the sleep ends
\* and get_history returns or raises
SpecExecLive == SpecExec /\ WF_vars(ExecSubmit) /\ WF_vars(ExecPoll)

ExecEnded == e_pc \in {"returned", "raised"}

\* the statuses of the call, by mode: while it loops no poll has reported
\* completed; waiting, it returns completed after a poll reporting success,
\* failed after one reporting another status_str, timeout with the
\* elapsed time above timeout_seconds, never queued; not waiting, it
\* returns queued and has not polled
ExecStatusRule ==
    /\ e_pc = "loop" => e_history \in {"none", "absent", "running"}
    /\ (e_pc = "returned" /\ e_wait) =>
          /\ e_status \in {"completed", "failed", "timeout"}
          /\ e_status = "completed" <=> e_history = "success"
          /\ e_status = "failed" <=> e_history = "error"
          /\ e_status = "timeout" => e_elapsed > e_timeout
    /\ (e_pc = "returned" /\ ~e_wait) =>
          /\ e_status = "queued"
          /\ e_history = "none"
          /\ e_elapsed = 0

\* C25: execute_workflow always ends: a call that waits leaves its polling
\* loop, and every call returns with the status of its mode
C25_PollingEnds ==
    /\ []ExecStatusRule
    /\ (e_pc = "ready" ~> ExecEnded)
    /\ (e_pc = "loop" ~> ExecEnded)

\* a waiting call returned timeout after polls that found the prompt running
C25_Witness ==
    /\ e_pc = "returned"
    /\ e_wait
    /\ e_status = "timeout"
    /\ e_history = "running"
    /\ e_timeout = MaxTimeout

----------------------------------------------------------------------------
(* Forward and self references in DslToJsonConverter: C26 *)

\* C26: declaration order never makes a reference unresolved: convert
\* raises only when a Connection names a node declared nowhere, and the
\* record emitted for a node holds, for each Connection to a name declared
\* at the node itself or after it, the pair of that name's id and slot
C26_ForwardReferences ==
    /\ d_pc = "raised" => HasUnresolved
    /\ ((d_pc = "pass2" \/ DslReturned) /\ d_i > 1) =>
          LET node == InNodes[d_i - 1]
              record == DictGet(result, IntStr(LastDeclared(node.name)))
          IN  \A j \in 1..Len(node.properties) :
                 LET value == node.properties[j].value
                 IN  (/\ value.k = "conn"
                      /\ Declared(value.node)
                      /\ LastDeclared(value.node) >= d_i - 1) =>
                        DictGet(record.inputs, node.properties[j].name) = ExpectedPair(value)

\* convert returned for a: with a Connection to b, declared after it, and
\* b: with a Connection to itself
C26_Witness ==
    /\ d_pc = "returned"
    /\ j_pc = "idle"
    /\ Len(InNodes) = 2
    /\ InNodes[1].name = S_a
    /\ InNodes[2].name = S_b
    /\ InNodes[1].properties # <<>>
    /\ InNodes[1].properties[1].value.k = "conn"
    /\ InNodes[1].properties[1].value.node = S_b
    /\ InNodes[2].properties # <<>>
    /\ InNodes[2].properties[1].value.k = "conn"
    /\ InNodes[2].properties[1].value.node = S_b
    /\ d_ret[1][2].inputs[1][2].items[1] = ScalStr(IntStr(2))

----------------------------------------------------------------------------
(* Workflow.get_node against the converter's tables: C27 *)

\* Workflow.get_node(name): the first node with the name in section-then-
\* node order, by its position; 0 stands for None
get_node(name) ==
    IF \E i \in 1..Len(FlatNodes(workflow)) : FlatNodes(workflow)[i].name = name
    THEN CHOOSE i \in 1..Len(FlatNodes(workflow)) :
            /\ FlatNodes(workflow)[i].name = name
            /\ \A j \in 1..(i - 1) : FlatNodes(workflow)[j].name # name
    ELSE 0

\* C27: the record emitted for a node holds, for each Connection to a
\* declared name n, the id pass 1 gave the node get_node(n) returns and the
\* slot of that node's type, also when several nodes are named n
C27_ResolvesGetNode ==
    ((d_pc = "pass2" \/ DslReturned) /\ d_i > 1) =>
        LET node == InNodes[d_i - 1]
            record == DictGet(result, IntStr(LastDeclared(node.name)))
        IN  \A j \in 1..Len(node.properties) :
               LET value == node.properties[j].value
               IN  (value.k = "conn" /\ get_node(value.node) # 0) =>
                      DictGet(record.inputs, node.properties[j].name)
                         = JsonList(<<ScalStr(IntStr(get_node(value.node))),
                                      ScalInt(TableSlot(InNodes[get_node(value.node)].node_type,
                                                        value.output))>>)

----------------------------------------------------------------------------
(* Referential integrity of the Workflow JsonToDslConverter returns: C28 *)

\* C28: in a returned Workflow each Connection's node field is the name
\* of exactly one node, the one made from the entry the connection
\* targeted, and DslToJsonConverter.convert accepts the Workflow
C28_ReferentialIntegrity ==
    /\ j_pc = "returned" =>
          \A i \in 1..Len(json_data) : \A j \in 1..Len(NodeOfEntry(i).properties) :
             LET value == json_data[i][2].inputs[j][2]
                 prop == NodeOfEntry(i).properties[j]
             IN  prop.value.k = "conn" =>
                    /\ Cardinality({x \in 1..Len(OutNodes) :
                                      OutNodes[x].name = prop.value.node}) = 1
                    /\ prop.value.node = NodeOfEntry(EntryOf(ScalToStr(value.items[1]))).name
    /\ (j_pc = "returned" /\ workflow = j_ret) => d_pc # "raised"

----------------------------------------------------------------------------
(* The wiring through Graph -> DSL -> Graph: C29 *)

\* the position, in section-then-node order, of the node made from the
\* i-th entry: the id a fresh DslToJsonConverter gives it
PositionOfEntry(i) ==
    LET label == InferSectionName(json_data[i][2].class_type)
        rank == Cardinality({e \in 1..i : InferSectionName(json_data[e][2].class_type) = label})
        sec == CHOOSE x \in 1..Len(j_ret) : j_ret[x].header = label
    IN  Len(FlatNodes(SubSeq(j_ret, 1, sec - 1))) + rank

\* slot s is 0 or a slot DEFAULT_OUTPUT_MAPPINGS lists for the type
SlotKept(node_type, s) ==
    \/ s = 0
    \/ \E i \in 1..Len(DEFAULT_OUTPUT_MAPPINGS) :
          /\ DEFAULT_OUTPUT_MAPPINGS[i][1] = node_type
          /\ \E j \in 1..Len(DEFAULT_OUTPUT_MAPPINGS[i][2]) :
                DEFAULT_OUTPUT_MAPPINGS[i][2][j][2] = s

\* the graph has come back from the Workflow JsonToDslConverter returned
GraphCameBack == j_pc = "returned" /\ workflow = j_ret /\ d_pc = "returned"

\* C29: for every input p of an entry that is a connection [t, s], the
\* graph that comes back holds, in the record made from the entry (same
\* class_type), the input p = [t', s'], t' being the id of the record made
\* from entry t and s' = s when s is 0 or listed for t's class_type
C29_WiringKept ==
    GraphCameBack =>
        \A i \in 1..Len(json_data) : \A j \in 1..Len(json_data[i][2].inputs) :
           LET value == json_data[i][2].inputs[j][2]
               p == json_data[i][2].inputs[j][1]
               t == EntryOf(ScalToStr(value.items[1]))
               id == IntStr(PositionOfEntry(i))
           IN  (value.k = "list" /\ Len(value.items) = 2) =>
                  /\ DictHas(d_ret, id)
                  /\ DictGet(d_ret, id).class_type = json_data[i][2].class_type
                  /\ DictHas(DictGet(d_ret, id).inputs, p)
                  /\ LET back == DictGet(DictGet(d_ret, id).inputs, p)
                     IN  /\ back.k = "list"
                         /\ Len(back.items) = 2
                         /\ back.items[1] = ScalStr(IntStr(PositionOfEntry(t)))
                         /\ DictGet(d_ret, IntStr(PositionOfEntry(t))).class_type
                               = json_data[t][2].class_type
                         /\ SlotKept(json_data[t][2].class_type, value.items[2].n) =>
                               back.items[2] = value.items[2]

====
